---- MODULE Spec2Model ----
(***************************************************************************)
(* Model of the share / export fallback pipeline of the flyer dashboard:   *)
(* ShareModal.handleWhatsAppShare and CompanyDashboard.handleNativeShare   *)
(* (src/src/pages/CompanyDashboard.jsx).  One step of the model is the     *)
(* synchronous code that runs between two awaits of a handler.             *)
(***************************************************************************)
EXTENDS Integers, Sequences, FiniteSets, TLC

(***************************************************************************)
(* Text.  A JavaScript string is a sequence of one-character strings.      *)
(***************************************************************************)
UpperCase == <<"A","B","C","D","E","F","G","H","I","J","K","L","M",
               "N","O","P","Q","R","S","T","U","V","W","X","Y","Z">>

LowerCase == <<"a","b","c","d","e","f","g","h","i","j","k","l","m",
               "n","o","p","q","r","s","t","u","v","w","x","y","z">>

Digits == {"0","1","2","3","4","5","6","7","8","9"}

\* variant: \s left out of the character class
Whitespace_None == {}

\* \s of the character class; a title holds no other white space than " "
Whitespace == {" "}

Range(s) == {s[i] : i \in DOMAIN s}

\* String.prototype.toLowerCase, one character
ToLowerChar(c) ==
  IF \E i \in DOMAIN UpperCase : UpperCase[i] = c
  THEN LowerCase[CHOOSE i \in DOMAIN UpperCase : UpperCase[i] = c]
  ELSE c

ToLowerCase(s) == [i \in DOMAIN s |-> ToLowerChar(s[i])]

\* s.split(c)[0]: the part of s before the first c (all of s without c)
BeforeFirst(s, c) ==
  IF \E i \in DOMAIN s : s[i] = c
  THEN SubSeq(s, 1, (CHOOSE i \in DOMAIN s :
                       s[i] = c /\ \A j \in 1..(i-1) : s[j] # c) - 1)
  ELSE s

\* s.split(c).pop(): the part of s after the last c (all of s without c)
AfterLast(s, c) ==
  IF \E i \in DOMAIN s : s[i] = c
  THEN SubSeq(s, (CHOOSE i \in DOMAIN s :
                    s[i] = c /\ \A j \in (i+1)..Len(s) : s[j] # c) + 1, Len(s))
  ELSE s

\* a || b on strings: the empty string is falsy
OrElse(a, b) == IF a # <<>> THEN a ELSE b

\* title.replace(/[^a-z0-9\s]/gi, '_')
\* the characters [a-z0-9\s] with the i flag keeps
WordChars == Range(LowerCase) \cup Range(UpperCase) \cup Digits \cup Whitespace

\* variant: the characters outside the class are removed
Sanitize_Drop(t) == SelectSeq(t, LAMBDA c : c \in WordChars)

Sanitize(t) == [i \in DOMAIN t |-> IF t[i] \in WordChars THEN t[i] ELSE "_"]

\* (flyer.imageUrl || flyer.imagePath || '').split('?')[0]
ImageUrlPath(f) == BeforeFirst(OrElse(f.imageUrl, OrElse(f.imagePath, <<>>)), "?")

\* imageUrlPath.split('.').pop()?.toLowerCase() || 'jpg'
Extension(f) == OrElse(ToLowerCase(AfterLast(ImageUrlPath(f), ".")), <<"j","p","g">>)

MimeType(f) == IF Extension(f) = <<"p","n","g">> THEN "image/png" ELSE "image/jpeg"

\* the encoding of the bytes kept for the flyer: the upload form takes PNG
\* and JPEG files, and a file is kept under the extension of its encoding
StoredEncoding(f) ==
  IF ToLowerCase(AfterLast(ImageUrlPath(f), ".")) = <<"p","n","g">>
  THEN "image/png" ELSE "image/jpeg"

\* the encoding of the blob a strategy resolves with: the download endpoint
\* and the direct fetch pass the kept bytes on,
\* canvas.toBlob(callback, 'image/jpeg', 0.95) encodes anew
BlobEncoding(f, strategy) ==
  IF strategy = "canvas" THEN "image/jpeg" ELSE StoredEncoding(f)

\* `${flyer.title.replace(/[^a-z0-9\s]/gi, '_')}.${extension}`
ComputeFileName(f) == Sanitize(f.title) \o <<".">> \o Extension(f)

\* flyer.imageUrl || flyerAPI.getFlyerImageUrl(flyer.imagePath)
ImageUrl(f) == OrElse(f.imageUrl, f.imagePath)

(***************************************************************************)
(* The flyers on the page.                                                 *)
(***************************************************************************)
NoFlyer == [id |-> 0, title |-> <<>>, imageUrl |-> <<>>, imagePath |-> <<>>]

Flyers ==
  { [id |-> 42,
     title |-> <<"S","u","m","m","e","r"," ","S","a","l","e","!","!">>,
     imageUrl |-> <<>>, imagePath |-> <<>>],
    [id |-> 7,
     title |-> <<"P","r","o","m","o">>,
     imageUrl |-> <<"h","t","t","p",":","/","/","c","/","i",".","p","n","g","?","s","=","1">>,
     imagePath |-> <<>>],
    [id |-> 9,
     title |-> <<"A","&","b">>,
     imageUrl |-> <<>>,
     imagePath |-> <<"/","u","/","f",".","J","P","G">>] }

\* the fileName local of the share handlers, for each flyer of the page
FileNames == [f \in Flyers |-> ComputeFileName(f)]

FileName(f) == FileNames[f]

(***************************************************************************)
(* Flyers for the naming step: every title up to MaxTitleLen characters    *)
(* with every image URL made of a stem, a suffix and a query string.       *)
(***************************************************************************)
MaxTitleLen == 2

TitleChars == {"a", "Z", "1", " ", "!"}

Titles == UNION {[1..k -> TitleChars] : k \in 0..MaxTitleLen}

UrlStems == { <<"/","u","/","f">>, <<"h","t","t","p",":","/","/","c","/","i">>, <<"h","t","t","p",":","/","/","c",".","d","/","i">> }

UrlSuffixes == { <<>>, <<".","p","n","g">>, <<".","P","N","G">>, <<".","j","p","g">>, <<".">> }

UrlQueries == { <<>>, <<"?","s","=","1">>, <<"?","v","=","1",".","2">>, <<"?","s","v","=","2","0","2","0","&","s","i","g","=","a","b","c">> }

\* the image URLs a flyer can carry; <<>> is an absent one
Urls == {<<>>} \cup {st \o su \o qu : st \in UrlStems, su \in UrlSuffixes, qu \in UrlQueries}

\* a flyer has its image in imageUrl or in imagePath
NamingFlyers ==
  {[id |-> 1, title |-> t, imageUrl |-> u, imagePath |-> <<>>] : t \in Titles, u \in Urls}
    \cup
  {[id |-> 1, title |-> t, imageUrl |-> <<>>, imagePath |-> u] : t \in Titles, u \in Urls}

(***************************************************************************)
(* Pages and image URLs for the canvas strategy.  A URL is kept as the     *)
(* resource it denotes (scheme, authority, path; no scheme for a relative  *)
(* URL) together with the text the handler sees.                           *)
(***************************************************************************)
Schemes == { <<"h","t","t","p">>, <<"h","t","t","p","s">> }

Authorities == { <<"a",".","c","o","m">>, <<"a",".","c","o","m",".","e","v","i","l",".","e","x","a","m","p","l","e">>, <<"b",".","o","r","g">>, <<"l","o","c","a","l","h","o","s","t",":","3","0","0","0">>, <<"l","o","c","a","l","h","o","s","t",":","3","0","0","0","1">> }

UrlPaths == { <<"/","x">>, <<"/","u","/","f",".","p","n","g">>, <<"/","i",".","j","p","g","?","s","=","1">> }

\* window.location of the page the dashboard is served from
Locations == { [scheme |-> <<"h","t","t","p","s">>, authority |-> <<"a",".","c","o","m">>],
               [scheme |-> <<"h","t","t","p">>, authority |-> <<"l","o","c","a","l","h","o","s","t",":","3","0","0","0">>],
               [scheme |-> <<"h","t","t","p">>, authority |-> <<"b",".","o","r","g">>] }

NoLocation == [scheme |-> <<>>, authority |-> <<>>]

CanvasTargets ==
  {[scheme |-> sc, authority |-> au, path |-> pa] :
     sc \in Schemes, au \in Authorities, pa \in UrlPaths}
    \cup {[scheme |-> <<>>, authority |-> <<>>, path |-> pa] : pa \in UrlPaths}

NoTarget == [scheme |-> <<>>, authority |-> <<>>, path |-> <<>>]

\* window.location.origin
Origin(l) == l.scheme \o <<":", "/", "/">> \o l.authority

\* the imageUrl string of a flyer whose image is the resource u
UrlText(u) == IF u.scheme = <<>> THEN u.path ELSE Origin(u) \o u.path

\* String.prototype.startsWith
StartsWith(s, prefix) ==
  Len(prefix) <= Len(s) /\ SubSeq(s, 1, Len(prefix)) = prefix

\* imageUrl.startsWith('http') && !imageUrl.startsWith(window.location.origin)
IsCrossOrigin(imageUrl, origin) ==
  StartsWith(imageUrl, <<"h","t","t","p">>) /\ ~StartsWith(imageUrl, origin)

\* no Image element created by the canvas strategy yet
NoImage == [src |-> <<>>, crossOrigin |-> "", created |-> FALSE]

(***************************************************************************)
(* Sessions and pages.                                                     *)
(***************************************************************************)
\* useAuth().user is null
NoUser == [role |-> "none", companyId |-> 0]

\* the user of the session; companyId 0 is an absent one
Sessions ==
  {NoUser} \cup {[role |-> r, companyId |-> c] : r \in {"Admin", "Company"}, c \in {0, 5}}

\* the routes of App that show a page
Routes == {"/login", "/admin", "/company"}

\* years the month navigation may move away from the year of the visit
MaxYearSpan == 1

\* what companyAPI.getAll can answer: an error, or a list of companies
CompaniesResults ==
  {[ok |-> FALSE, data |-> {}]} \cup {[ok |-> TRUE, data |-> d] : d \in {{}, {5}, {5, 6}}}

\* the months of the year
Months == 1..12

\* no initialization effect has run
NoRun == [component |-> "none", user |-> NoUser, navigated |-> FALSE, issued |-> "none"]

\* variant: the role alone lets the company page through
CompanySessionOK_RoleOnly(u) == u.role = "Company"

\* the negation of: user?.role !== 'Company' || !user?.companyId
CompanySessionOK(u) == u.role = "Company" /\ u.companyId # 0

\* the negation of: user?.role !== 'Admin'
AdminSessionOK(u) == u.role = "Admin"

(***************************************************************************)
(* Review customers.                                                       *)
(***************************************************************************)
PAGE_SIZE == 10

\* customers that may be added to the list of the mounted tab
MaxAdded == 1

\* the list the server keeps for the company, by the number of its customers
Roster(n) ==
  [i \in 1..n |-> [id |-> i, isActive |-> (i \in {1, 11}), day0Sent |-> TRUE,
                   day1Sent |-> (i % 2 = 0), day3Sent |-> (i > 2)]]

\* what reviewAPI.getCustomersByCompany can answer: an error, or the list
CustomersResponses ==
  {[ok |-> FALSE, data |-> <<>>]} \cup {[ok |-> TRUE, data |-> Roster(n)] : n \in {0, 11}}

\* the customer the server creates for an accepted request
NewCustomers(cs) ==
  {[id |-> 100 + Len(cs), isActive |-> TRUE, day0Sent |-> TRUE, day1Sent |-> FALSE,
    day3Sent |-> FALSE]}

\* the message of an error response that names the missing review link
GbpMessage == "GBP Review Link is not configured for this company."

ServerMessages == {"", GbpMessage}

\* what reviewAPI.addCustomer can answer: the customer, an error response
\* with a status and a message, or no response (status 0)
AddResponses ==
  {[ok |-> TRUE, status |-> 200, message |-> ""]}
    \cup {[ok |-> FALSE, status |-> st, message |-> m] :
            st \in {400, 404, 500}, m \in ServerMessages}
    \cup {[ok |-> FALSE, status |-> 0, message |-> ""]}

\* what the user types into the two inputs of the form
NameInputs == { <<" ">>, <<" ","A","l"," ">> }

PhoneInputs == { <<"1","2","3","4","5">>, <<"9","1"," ","9","0","7","6","0","0","6","2","6","2">>, <<"1","2","3","4","5","6","7","8","9","0","1","2","3","4","5","6">> }

\* String.prototype.trim
Trim(t) ==
  LET kept == {i \in DOMAIN t : t[i] \notin {" "}} IN
    IF kept = {} THEN <<>>
    ELSE SubSeq(t, CHOOSE i \in kept : \A j \in kept : i <= j,
                   CHOOSE i \in kept : \A j \in kept : i >= j)

\* e.target.value.replace(/\D/g, '')
DigitsOf(t) == SelectSeq(t, LAMBDA c : c \in Digits)

\* /^\d{10,15}$/.test(trimmedPhone)
PhoneOK(t) == Len(t) \in 10..15 /\ \A i \in DOMAIN t : t[i] \in Digits

\* variant: the message is never taken for the missing review link
IncludesGbpText_Never(m) == FALSE

\* msg && msg.toLowerCase().includes('gbp review link')
IncludesGbpText(m) == m = GbpMessage

ConfigureLinkMessage ==
  "Please configure your Google Review Link in the Settings tab before adding customers."

\* the errorMsg of the catch block of handleAddCustomer
AddErrorMessage(r) ==
  IF IncludesGbpText(r.message) THEN ConfigureLinkMessage
  ELSE IF r.status = 400
       THEN IF r.message # "" THEN r.message ELSE "Invalid request. Please check your inputs."
  ELSE IF r.status = 404
       THEN IF r.message # "" THEN r.message ELSE "Company not found."
  ELSE "Failed to send review request. Please try again."

\* variant: the customer is taken out of the list
SoftDelete_Remove(cs, customerId) == SelectSeq(cs, LAMBDA c : c.id # customerId)

\* prev.map(c => c.id === customerId ? { ...c, isActive: false } : c)
SoftDelete(cs, customerId) ==
  [i \in DOMAIN cs |->
     IF cs[i].id = customerId THEN [cs[i] EXCEPT !.isActive = FALSE] ELSE cs[i]]

\* Math.ceil(customers.length / PAGE_SIZE)
TotalPages(cs) == (Len(cs) + PAGE_SIZE - 1) \div PAGE_SIZE

\* customers.slice((currentPage - 1) * PAGE_SIZE, currentPage * PAGE_SIZE)
Paginated(cs, pg) ==
  {cs[i] : i \in {k \in DOMAIN cs : (pg - 1) * PAGE_SIZE < k /\ k <= pg * PAGE_SIZE}}

\* variant: the page shown stays after an addition
PageAfterAdd_Keep(pg) == pg

\* setCurrentPage(1) after an addition
PageAfterAdd(pg) == 1

\* reviewAPI.addCustomer calls that may be in flight at once
MaxInFlight == 2

\* the tab that sent the requests is unmounted: they stay in flight, and
\* their responses find no component to update
Orphaned(reqs) == [i \in DOMAIN reqs |-> [reqs[i] EXCEPT !.mounted = FALSE]]

\* the sequence without its i-th element
Without(reqs, i) == SubSeq(reqs, 1, i - 1) \o SubSeq(reqs, i + 1, Len(reqs))

\* a step that ends no request
NoEvent == [kind |-> "none", id |-> 0]

(***************************************************************************)
(* The upload form of AdminDashboard.                                      *)
(***************************************************************************)
DigitSeq == <<"0","1","2","3","4","5","6","7","8","9">>

\* the value of a digit character
DigitValue(c) == (CHOOSE i \in DOMAIN DigitSeq : DigitSeq[i] = c) - 1

\* the number of digits s begins with
LeadingDigits(s) ==
  IF \E i \in DOMAIN s : s[i] \notin Digits
  THEN (CHOOSE i \in DOMAIN s : s[i] \notin Digits /\ \A j \in 1..(i-1) : s[j] \in Digits) - 1
  ELSE Len(s)

RECURSIVE DecimalValue(_)
DecimalValue(s) ==
  IF s = <<>> THEN 0
  ELSE 10 * DecimalValue(SubSeq(s, 1, Len(s) - 1)) + DigitValue(s[Len(s)])

NaN == -1

\* parseInt(s, 10) of a string without sign: the value of the digits s
\* begins with after its leading white space, NaN when there is none
ParseInt(s) ==
  LET t == SelectSeq(s, LAMBDA c : c # " ")
      n == LeadingDigits(t)
  IN IF n = 0 THEN NaN ELSE DecimalValue(SubSeq(t, 1, n))

\* String(id) of a company id below 10
IdText(id) == <<DigitSeq[id + 1]>>

\* variant: GIF images pass the type check
ValidTypes_WithGif == {"image/png", "image/jpeg", "image/jpg", "image/gif"}

\* const validTypes = ['image/png', 'image/jpeg', 'image/jpg']
ValidTypes == {"image/png", "image/jpeg", "image/jpg"}

\* useState(null) of file
NoFile == [type |-> "", name |-> ""]

\* e.target.files[0] of the file input: a file, or nothing when the dialog
\* is dismissed
FileChoices ==
  { NoFile, [type |-> "image/png", name |-> "a.png"], [type |-> "image/jpeg", name |-> "b.jpg"],
    [type |-> "image/jpg", name |-> "c.jpg"], [type |-> "image/gif", name |-> "d.gif"],
    [type |-> "application/pdf", name |-> "e.pdf"] }

\* what is typed or chosen as title and as date; <<>> is the empty value
TitleInputs == { <<>>, <<"S","a","l","e">> }

DateInputs == { <<>>, <<"2","0","2","6","-","1","1","-","0","5">> }

\* the values of the company select: '' and the id of each company loaded
CompanyOptions(cs) == {<<>>} \cup {IdText(c) : c \in cs}

\* what flyerAPI.uploadFlyer can answer: success, an error response with
\* or without a message, or no response
UploadResponses ==
  { [ok |-> TRUE, message |-> ""], [ok |-> FALSE, message |-> ""],
    [ok |-> FALSE, message |-> "File too large"] }

\* the versions of CompanyDashboard.handleNativeShare
Variants == {"current", "first", "second"}

\* no flyer and no answers chosen
NoScenario == [chosen |-> FALSE]

\* a variant that has not run
NoRunResult == [outcome |-> "none", fileName |-> <<>>]

\* a step of the page that is no submission
NoStep == [kind |-> "none"]

\* new File([blob], fileName, { type: mimeType }) not yet built
NoArtifact == [extension |-> <<>>, type |-> "", name |-> <<>>, built |-> FALSE]

\* no link clicked by handleDownload yet
NoLink == [href |-> <<>>, download |-> <<>>, extension |-> <<>>, clicked |-> FALSE]

\* imageUrl.split('.').pop()?.toLowerCase().split('?')[0] || 'jpg'
DownloadExtension(imageUrl) ==
  OrElse(BeforeFirst(ToLowerCase(AfterLast(imageUrl, ".")), "?"), <<"j","p","g">>)

(***************************************************************************)
(* What the environment can answer to each awaited operation.              *)
(***************************************************************************)
\* flyerAPI.downloadFlyer: a blob, an empty blob, no data, an HTTP error
\* status, or no response at all
DownloadResults == {"blob", "empty", "missing", "http404", "http403", "http500", "noresponse"}

\* fetch(absoluteUrl): resolves ok, resolves with !ok, or rejects
FetchResults == {"ok", "notok", "rejected"}

\* fetchResponse.blob(): a blob, an empty blob, or a rejection
FetchBlobResults == {"blob", "empty", "rejected"}

\* the image/canvas promise: toBlob gives a blob, toBlob gives null,
\* drawImage/toBlob throws, or the image does not load
CanvasResults == {"blob", "null", "throws", "loaderror"}

\* navigator.share: resolves or rejects with a DOMException of that name
ShareResults == {"ok", "AbortError", "NotAllowedError", "DataError"}

\* navigator.share present, navigator.canShare present, canShare({files}) result
Capabilities ==
  { c \in [share : BOOLEAN, canShare : BOOLEAN, result : BOOLEAN, checked : {TRUE}] :
      c.result => c.canShare }

NoCapability == [share |-> FALSE, canShare |-> FALSE, result |-> FALSE, checked |-> FALSE]

Strategies == <<"download", "fetch", "canvas">>

NoResults == [download |-> "none", fetch |-> "none", canvas |-> "none", share |-> "none"]

\* pending setTimeout callbacks of handleWhatsAppShare that may be outstanding
MaxTimers == 1

\* share handlers that may be suspended at an await at the same time
MaxAttempts == 2

\* a handler call that has not been made
NoAttempt == [handler |-> "none", flyer |-> 0, pc |-> "free"]

\* variant: the fallback download without its last statement
DownloadSteps_NoRevoke == <<"createObjectURL", "click">>

\* the fallback download: window.URL.createObjectURL(blob), link.click(),
\* window.URL.revokeObjectURL(blobUrl)
DownloadSteps == <<"createObjectURL", "click", "revokeObjectURL">>

(***************************************************************************)
(* Errors and the message the catch block derives from one.                *)
(***************************************************************************)
Error(name, message) ==
  [name |-> name, message |-> message, status |-> 0, request |-> FALSE]

NoError == Error("", "")

\* the axios error of a failed downloadFlyer call
AxiosError(r) ==
  CASE r = "http404" -> [name |-> "AxiosError", message |-> "Request failed with status code 404",
                         status |-> 404, request |-> TRUE]
    [] r = "http403" -> [name |-> "AxiosError", message |-> "Request failed with status code 403",
                         status |-> 403, request |-> TRUE]
    [] r = "http500" -> [name |-> "AxiosError", message |-> "Request failed with status code 500",
                         status |-> 500, request |-> TRUE]
    [] OTHER         -> [name |-> "AxiosError", message |-> "Network Error",
                         status |-> 0, request |-> TRUE]

\* the rejection of the image/canvas promise
CanvasError(r) ==
  CASE r = "null"   -> Error("Error", "Failed to convert image to blob")
    [] r = "throws" -> Error("Error", "Canvas conversion failed: The operation is insecure.")
    [] OTHER        -> Error("Error", "Image failed to load: [object Event]")

EmptyPayloadMessage == "Received empty image file"

UnableToAccessMessage == "Unable to access image."

\* errorMessage.includes('Failed to fetch') || includes('CORS') ||
\* includes('Canvas conversion failed') || includes('Image failed to load') ||
\* includes('Network Error')
IncludesAccessText(m) ==
  m \in { "Failed to fetch",
          "Canvas conversion failed: The operation is insecure.",
          "Image failed to load: [object Event]",
          "Network Error" }

\* errorMessage.includes('AbortError') || errorMessage.includes('cancelled')
IncludesCancelText(m) == m \in { "AbortError", "The user cancelled the share" }

\* the errorMessage computed in the catch block of either handler
ErrorMessage(err) ==
  LET first ==
        IF err.status # 0
        THEN IF err.status = 404 THEN "Image not found on server."
             ELSE IF err.status = 403 THEN "Access denied to image."
             ELSE IF err.status >= 500 THEN "Server error. Please try again later."
             ELSE "Server error"
        ELSE IF err.request THEN "Network error: Unable to connect to server."
        ELSE IF err.message # "" THEN err.message
        ELSE "Unknown error"
  IN IF IncludesAccessText(first) \/ err.name = "TypeError"
     THEN UnableToAccessMessage
     ELSE first

\* variant: the size test without the !blob guard
BlobIsEmpty_SizeOnly(b) == b = "empty"

\* if (!blob || blob.size === 0)
BlobIsEmpty(b) == b \in {"undefined", "empty"}

\* variant: only permission errors are taken for a cancellation
IsCancellation_NotAllowedOnly(name) == name = "NotAllowedError"

\* shareErr.name === 'AbortError' || shareErr.name === 'NotAllowedError'
IsCancellation(name) == name \in {"AbortError", "NotAllowedError"}

\* variant: the fallback code runs whether or not the download call threw
DownloadRejects_Always(r) == TRUE

\* await flyerAPI.downloadFlyer throws: axios rejects on an error status and
\* when no response arrives
DownloadRejects(r) == r \in {"http404", "http403", "http500", "noresponse"}

\* variant: the canvas code runs whether or not the fetch threw
FetchRejects_Always(r) == TRUE

\* the direct fetch throws: fetch rejects, !fetchResponse.ok, or blob() rejects
FetchRejects(r) == r \in {"notok", "rejected"}

\* ShareModal: hasWebShareAPI && navigator.canShare({ files: [file] })
\* CompanyDashboard: navigator.canShare && navigator.canShare({ files: [file] })
CanShareFiles(h, c) ==
  IF h = "whatsapp"
  THEN (c.share /\ c.canShare) /\ c.result
  ELSE c.canShare /\ c.result

(***************************************************************************)
(* State.                                                                  *)
(***************************************************************************)
VARIABLES
  shareModalOpen,   \* CompanyDashboard state: the share modal is shown
  selectedFlyer,    \* CompanyDashboard state: the flyer of the share modal
  sharingId,        \* CompanyDashboard state: id of the flyer being shared, 0 = null
  error,            \* CompanyDashboard state: the error text, "" = none
  handler,          \* the running handler: "whatsapp" or "native"
  flyer,            \* the flyer the running handler was called with
  pc,               \* the await the running handler is suspended at
  blob,             \* local blob: "undefined", "empty" or "data"
  downloadError,    \* the error caught by catch (downloadError)
  attempted,        \* the acquisition strategies called so far, in call order
  result,           \* what each awaited operation of the attempt settled with
  capability,       \* what the Web Share capability check of the attempt saw
  alerts,           \* the alert() texts of the attempt, in order
  downloads,        \* the file names of the link.click() downloads of the attempt
  shared,           \* the file names handed to navigator.share in the attempt
  outcome,          \* how the attempt ended
  cause,            \* the errorMessage of the catch block, "" = none
  path,             \* the phases the attempt went through
  domLog,           \* the object URL and link calls of the attempt, in order
  closes,           \* the onClose() calls of the attempt
  timers,           \* pending setTimeout callbacks
  flyers,           \* CompanyDashboard state: the flyers of the page
  artifact,         \* the File built by the naming step of the share handlers
  link,             \* the anchor element clicked by handleDownload
  location,         \* window.location of the page
  target,           \* the resource the image URL of the canvas strategy denotes
  img,              \* the Image element of the canvas strategy
  attempts,         \* the share handler calls in progress, by call slot
  user,             \* useAuth().user: the session
  page,             \* the route shown
  now,              \* new Date() of the visit: year and month
  currentYear,      \* dashboard state: the year shown
  currentMonth,     \* dashboard state: the month shown
  companies,        \* AdminDashboard state: the ids of the companies loaded
  companiesPending, \* companyAPI.getAll of the mounted AdminDashboard is in flight
  adminError,       \* AdminDashboard state: the error text
  lastRun,          \* the last run of a page's initialization effect
  requests,         \* the REST calls issued by the dashboards, with the session
  trail,            \* the last clicks of MonthNavigator, each with the props it read
  activeTab,        \* CompanyDashboard state: the tab shown
  customers,        \* ReviewBoxTab state: the customers listed
  loading,          \* ReviewBoxTab state
  submitting,       \* ReviewBoxTab state
  customerName,     \* ReviewBoxTab state: the name input
  phoneNumber,      \* ReviewBoxTab state: the phone input
  successMsg,       \* ReviewBoxTab state
  errorMsg,         \* ReviewBoxTab state
  currentPage,      \* ReviewBoxTab state
  fetching,         \* reviewAPI.getCustomersByCompany of the mounted tab is in flight
  adding,           \* the reviewAPI.addCustomer requests in flight
  deactivating,     \* the ids of the reviewAPI.deactivateCustomer requests in flight
  event,            \* what the last step of the tab was
  uploadTitle,      \* AdminDashboard state: title
  titleMode,        \* AdminDashboard state
  companyId,        \* AdminDashboard state: the company of the upload form, as text
  forDate,          \* AdminDashboard state
  file,             \* AdminDashboard state: the file chosen
  uploading,        \* AdminDashboard state
  adminMessage,     \* AdminDashboard state: message
  uploads,          \* the flyerAPI.uploadFlyer requests in flight, with their form data
  uploadStep,       \* what the last step of the upload form was
  flyerCalls,       \* the flyer list requests in flight, each with its parameters
  allFlyers,        \* AdminDashboard state: the flyers listed
  selectedCompanyFilter, \* AdminDashboard state: the company filter, 0 = null
  flyersLoading,    \* CompanyDashboard state: loading
  scenario,         \* the flyer and the answers of the environment given to each variant
  runs              \* what each variant of handleNativeShare ended with

pageVars == <<shareModalOpen, selectedFlyer, sharingId, error>>

localVars == <<handler, flyer, pc, blob, downloadError>>

traceVars == <<attempted, result, capability, alerts, downloads, shared, outcome, cause, path,
               domLog, closes>>

namingVars == <<flyers, artifact, link>>

\* the state outside the share pipeline
canvasVars == <<location, target, img>>

sessionVars == <<user, page, now, currentYear, currentMonth, companies, companiesPending,
                 adminError, lastRun, requests, trail>>

\* the state of the dashboards outside flyer sharing
reviewVars == <<activeTab, customers, loading, submitting, customerName, phoneNumber,
                successMsg, errorMsg, currentPage, fetching, adding, deactivating, event>>

\* the upload form of AdminDashboard
formVars == <<uploadTitle, titleMode, forDate, file, uploading, adminMessage, uploads,
              uploadStep>>

uploadVars == <<formVars, companyId>>

\* the flyer list of the two dashboards
listVars == <<flyerCalls, allFlyers, selectedCompanyFilter, flyersLoading>>

variantVars == <<scenario, runs>>

dashboardVars == <<sessionVars, reviewVars, uploadVars, listVars, variantVars>>

restVars == <<namingVars, canvasVars, attempts, dashboardVars>>

vars == <<pageVars, localVars, traceVars, timers, restVars>>

Terminal == {"Shared", "Downloaded", "Cancelled", "Failed"}

InstructionsAlert == "instructions"

\* the share pipeline at rest
InitShare ==
  /\ shareModalOpen = FALSE
  /\ selectedFlyer = NoFlyer
  /\ sharingId = 0
  /\ error = ""
  /\ handler = "none"
  /\ flyer = NoFlyer
  /\ pc = "idle"
  /\ blob = "undefined"
  /\ downloadError = NoError
  /\ attempted = <<>>
  /\ result = NoResults
  /\ capability = NoCapability
  /\ alerts = <<>>
  /\ downloads = <<>>
  /\ shared = <<>>
  /\ outcome = "none"
  /\ cause = ""
  /\ path = <<"Idle">>
  /\ domLog = <<>>
  /\ closes = 0
  /\ timers = 0

\* no naming step has run
InitNaming == artifact = NoArtifact /\ link = NoLink

\* no canvas strategy has run
InitCanvas == location = NoLocation /\ target = NoTarget /\ img = NoImage

\* no overlapping handler call
InitAttempts == attempts = [i \in 1..MaxAttempts |-> NoAttempt]

\* a company user on the company page, outside month navigation
InitSession ==
  /\ user = [role |-> "Company", companyId |-> 5]
  /\ page = "/company"
  /\ now = [year |-> 2026, month |-> 11]
  /\ currentYear = 2026
  /\ currentMonth = 11
  /\ companies = {}
  /\ companiesPending = FALSE
  /\ adminError = ""
  /\ lastRun = NoRun
  /\ requests = {}
  /\ trail = <<>>

\* the flyers tab is shown, ReviewBoxTab is not mounted
InitReview ==
  /\ activeTab = "flyers"
  /\ customers = <<>>
  /\ loading = TRUE
  /\ submitting = FALSE
  /\ customerName = <<>>
  /\ phoneNumber = <<>>
  /\ successMsg = ""
  /\ errorMsg = ""
  /\ currentPage = 1
  /\ fetching = FALSE
  /\ adding = <<>>
  /\ deactivating = {}
  /\ event = NoEvent

\* the upload form as AdminDashboard creates it, but for the company
InitForm ==
  /\ uploadTitle = <<>>
  /\ titleMode = "predefined"
  /\ forDate = <<>>
  /\ file = NoFile
  /\ uploading = FALSE
  /\ adminMessage = ""
  /\ uploads = <<>>
  /\ uploadStep = NoStep

InitUpload == InitForm /\ companyId = <<>>

\* no flyer list loaded
InitList ==
  /\ flyerCalls = {}
  /\ allFlyers = {}
  /\ selectedCompanyFilter = 0
  /\ flyersLoading = TRUE

\* no variant has run
InitVariants == scenario = NoScenario /\ runs = [v \in Variants |-> NoRunResult]

\* the state of the dashboards that only some specifications follow
InitExtra == InitUpload /\ InitList /\ InitVariants

Init ==
  /\ InitShare
  /\ flyers = Flyers
  /\ InitNaming
  /\ InitCanvas
  /\ InitAttempts
  /\ InitSession
  /\ InitReview
  /\ InitExtra

(***************************************************************************)
(* Pieces of the handlers.                                                 *)
(***************************************************************************)
\* variant: the modal is hidden but keeps its flyer
OnClose_KeepFlyer ==
  /\ shareModalOpen' = FALSE
  /\ selectedFlyer' = selectedFlyer
  /\ error' = ""

\* the onClose prop CompanyDashboard passes to ShareModal
OnClose ==
  /\ shareModalOpen' = FALSE
  /\ selectedFlyer' = NoFlyer
  /\ error' = ""

\* the handler suspends at its next await
Proceed(next) ==
  /\ pc' = next
  /\ UNCHANGED <<blob, capability, shared, outcome, cause, alerts, downloads, path, timers>>
  /\ UNCHANGED <<domLog, closes, pageVars>>

\* the handler runs to its end: handleWhatsAppShare calls onClose() on every
\* path, handleNativeShare runs finally { setSharingId(null) }
Exit(o, msg, newAlerts, newDownloads, suffix, tm, newError) ==
  /\ pc' = "done"
  /\ outcome' = o
  /\ cause' = msg
  /\ alerts' = alerts \o newAlerts
  /\ downloads' = downloads \o newDownloads
  /\ domLog' = domLog \o (IF newDownloads = <<>> THEN <<>> ELSE DownloadSteps)
  /\ path' = path \o suffix
  /\ timers' = tm
  /\ IF handler = "whatsapp"
     THEN OnClose /\ closes' = closes + 1 /\ sharingId' = sharingId
     ELSE /\ sharingId' = 0
          /\ error' = newError
          /\ UNCHANGED <<shareModalOpen, selectedFlyer, closes>>

\* catch (error) of handleWhatsAppShare, catch (err) of handleNativeShare
Catch(err, pre) ==
  LET msg == ErrorMessage(err) IN
    IF IncludesCancelText(msg)
    THEN Exit("Cancelled", msg, <<>>, <<>>, pre \o <<"Cancelled">>, timers, error)
    ELSE Exit("Failed", msg, <<msg>>, <<>>, pre \o <<"Failed">>, timers, msg)

\* the fallback download, the instructions alert and, in handleWhatsAppShare,
\* the opening of WhatsApp (with a one second timer on a mobile user agent)
Fallback(pre) ==
  \E isMobile \in BOOLEAN :
    /\ isMobile => (handler = "whatsapp" /\ timers < MaxTimers)
    /\ Exit("Downloaded", "", <<InstructionsAlert>>, <<FileName(flyer)>>,
            pre \o <<"Downloading", "Downloaded">>,
            IF isMobile THEN timers + 1 ELSE timers, error)

\* return after a successful navigator.share
ExitShared(pre) == Exit("Shared", "", <<>>, <<>>, pre \o <<"Shared">>, timers, error)

\* return after a cancelled navigator.share
ExitCancelled(pre) == Exit("Cancelled", "", <<>>, <<>>, pre \o <<"Cancelled">>, timers, error)

\* variant: no inner try, the share error reaches the outer catch
ShareFailed_Rethrow(name, pre) ==
  IF IsCancellation(name) THEN ExitCancelled(pre)
  ELSE Catch(Error(name, "share failed"), pre)

\* the catch (shareErr) block
ShareFailed(name, pre) ==
  IF IsCancellation(name) THEN ExitCancelled(pre) ELSE Fallback(pre)

\* from the blob check up to the await of navigator.share or the end
Deliver(b) ==
  /\ blob' = b
  /\ IF BlobIsEmpty(b)
     THEN /\ UNCHANGED <<capability, shared>>
          /\ Catch(Error("Error", EmptyPayloadMessage), <<>>)
     ELSE \E c \in Capabilities :
            /\ capability' = c
            /\ IF CanShareFiles(handler, c)
               THEN IF c.share
                    THEN /\ pc' = "share"
                         /\ shared' = Append(shared, FileName(flyer))
                         /\ path' = path \o <<"Sharing">>
                         /\ UNCHANGED <<outcome, cause, alerts, downloads, timers>>
                         /\ UNCHANGED <<domLog, closes, pageVars>>
                    ELSE \* navigator.share is not a function: a TypeError
                         /\ shared' = shared
                         /\ ShareFailed("TypeError", <<"Sharing">>)
               ELSE /\ shared' = shared
                    /\ Fallback(<<"Sharing">>)

\* the canvas strategy is started
StartCanvas ==
  /\ attempted' = Append(attempted, "canvas")
  /\ Proceed("canvas")

(***************************************************************************)
(* Actions.                                                                *)
(***************************************************************************)
\* CompanyDashboard.handleShare, behind a button disabled while
\* sharingId === flyer.id
handleShare(f) ==
  /\ sharingId # f.id
  /\ selectedFlyer' = f
  /\ shareModalOpen' = TRUE
  /\ UNCHANGED <<sharingId, error, localVars, traceVars, timers, restVars>>

\* the overlay or the close button of the rendered modal
CloseModal ==
  /\ shareModalOpen /\ selectedFlyer # NoFlyer
  /\ OnClose
  /\ UNCHANGED <<sharingId, localVars, traceVars, timers, restVars>>

\* the attempt's own record starts empty
NewAttempt(h) ==
  /\ handler' = h
  /\ flyer' = selectedFlyer
  /\ pc' = "download"
  /\ blob' = "undefined"
  /\ downloadError' = NoError
  /\ attempted' = <<"download">>
  /\ result' = NoResults
  /\ capability' = NoCapability
  /\ alerts' = <<>>
  /\ downloads' = <<>>
  /\ shared' = <<>>
  /\ outcome' = "none"
  /\ cause' = ""
  /\ path' = <<"Idle", "Acquiring">>
  /\ domLog' = <<>>
  /\ closes' = (IF h = "native" THEN 1 ELSE 0)
  /\ timers' = timers

\* Spec follows one share attempt at a time: a handler is started when no
\* other attempt is suspended at an await (pc is "idle" or "done").

\* ShareModal.handleWhatsAppShare up to await flyerAPI.downloadFlyer
handleWhatsAppShare ==
  /\ shareModalOpen /\ selectedFlyer # NoFlyer
  /\ pc \in {"idle", "done"}
  /\ NewAttempt("whatsapp")
  /\ UNCHANGED <<pageVars, restVars>>

\* ShareModal.handleNativeShare: onShare() runs CompanyDashboard.handleNativeShare
\* up to await flyerAPI.downloadFlyer, then onClose()
handleNativeShare ==
  /\ shareModalOpen /\ selectedFlyer # NoFlyer
  /\ pc \in {"idle", "done"}
  /\ NewAttempt("native")
  /\ sharingId' = selectedFlyer.id
  /\ OnClose
  /\ UNCHANGED restVars

\* flyerAPI.downloadFlyer settles
DownloadSettles ==
  /\ pc = "download"
  /\ UNCHANGED restVars
  /\ \E r \in DownloadResults :
       /\ result' = [result EXCEPT !.download = r]
       /\ UNCHANGED <<handler, flyer>>
       /\ IF ~DownloadRejects(r)
          THEN /\ UNCHANGED <<downloadError, attempted>>
               /\ Deliver(CASE r = "blob" -> "data" [] r = "empty" -> "empty"
                            [] OTHER -> "undefined")
          ELSE /\ downloadError' = AxiosError(r)
               /\ IF ImageUrl(flyer) = <<>>
                  THEN /\ UNCHANGED <<attempted, blob, capability, shared>>
                       /\ Catch(Error("Error", "No image URL available"), <<>>)
                  ELSE /\ attempted' = Append(attempted, "fetch")
                       /\ Proceed("fetch")

\* fetch(absoluteUrl) settles
FetchSettles ==
  /\ pc = "fetch"
  /\ UNCHANGED restVars
  /\ \E r \in FetchResults :
       /\ result' = [result EXCEPT !.fetch = r]
       /\ UNCHANGED <<handler, flyer, downloadError>>
       /\ IF FetchRejects(r)
          THEN StartCanvas
          ELSE /\ UNCHANGED attempted
               /\ Proceed("fetchBlob")

\* fetchResponse.blob() settles
FetchBlobSettles ==
  /\ pc = "fetchBlob"
  /\ UNCHANGED restVars
  /\ \E r \in FetchBlobResults :
       /\ result' = [result EXCEPT !.fetch = r]
       /\ UNCHANGED <<handler, flyer, downloadError>>
       /\ IF FetchRejects(r)
          THEN StartCanvas
          ELSE /\ UNCHANGED attempted
               /\ Deliver(IF r = "blob" THEN "data" ELSE "empty")

\* the image/canvas promise settles
CanvasSettles ==
  /\ pc = "canvas"
  /\ UNCHANGED restVars
  /\ \E r \in CanvasResults :
       /\ result' = [result EXCEPT !.canvas = r]
       /\ UNCHANGED <<handler, flyer, downloadError, attempted>>
       /\ IF r = "blob"
          THEN Deliver("data")
          ELSE /\ UNCHANGED <<blob, capability, shared>>
               /\ Catch(CanvasError(r), <<>>)

\* navigator.share settles
ShareSettles ==
  /\ pc = "share"
  /\ UNCHANGED restVars
  /\ \E r \in ShareResults :
       /\ result' = [result EXCEPT !.share = r]
       /\ UNCHANGED <<handler, flyer, downloadError, attempted, blob, capability, shared>>
       /\ IF r = "ok" THEN ExitShared(<<>>) ELSE ShareFailed(r, <<>>)

\* the setTimeout callback of handleWhatsAppShare opens WhatsApp Web
TimerFires ==
  /\ timers > 0
  /\ timers' = timers - 1
  /\ UNCHANGED <<pageVars, localVars, traceVars, restVars>>

Next ==
  \/ \E f \in Flyers : handleShare(f)
  \/ CloseModal
  \/ handleWhatsAppShare
  \/ handleNativeShare
  \/ DownloadSettles
  \/ FetchSettles
  \/ FetchBlobSettles
  \/ CanvasSettles
  \/ ShareSettles
  \/ TimerFires

Spec == Init /\ [][Next]_vars

\* the operation the running handler awaits settles
Settle ==
  \/ DownloadSettles
  \/ FetchSettles
  \/ FetchBlobSettles
  \/ CanvasSettles
  \/ ShareSettles

\* every awaited operation eventually settles
FairSpec == Spec /\ WF_vars(Settle)

TypeOK ==
  /\ shareModalOpen \in BOOLEAN
  /\ selectedFlyer \in Flyers \cup {NoFlyer}
  /\ sharingId \in {0} \cup {f.id : f \in Flyers}
  /\ handler \in {"none", "whatsapp", "native"}
  /\ flyer \in Flyers \cup {NoFlyer}
  /\ pc \in {"idle", "download", "fetch", "fetchBlob", "canvas", "share", "done"}
  /\ blob \in {"undefined", "empty", "data"}
  /\ outcome \in Terminal \cup {"none"}
  /\ timers \in 0..MaxTimers

(***************************************************************************)
(* The naming step of the share handlers and of handleDownload, applied to *)
(* every flyer of NamingFlyers.                                            *)
(***************************************************************************)
\* the share pipeline but for the error state
quietVars == <<shareModalOpen, selectedFlyer, sharingId, localVars, traceVars, timers>>

\* the share handlers from "Determine file extension and MIME type" to
\* new File([blob], fileName, { type: mimeType })
NameArtifact(f) ==
  /\ artifact' = [extension |-> Extension(f), type |-> MimeType(f),
                  name |-> ComputeFileName(f), built |-> TRUE]
  /\ UNCHANGED <<quietVars, error, flyers, link, canvasVars, attempts, dashboardVars>>

\* CompanyDashboard.handleDownload
handleDownload(flyerId, title) ==
  LET found == {f \in flyers : f.id = flyerId} IN
    /\ found # {}
    /\ LET f == CHOOSE g \in found : TRUE
           imageUrl == OrElse(f.imageUrl, f.imagePath)
           extension == DownloadExtension(imageUrl)
       IN IF imageUrl = <<>>
          THEN /\ error' = "No image URL available for this flyer. Please try again."
               /\ link' = link
          ELSE /\ link' = [href |-> imageUrl,
                           download |-> Sanitize(title) \o <<".">> \o extension,
                           extension |-> extension, clicked |-> TRUE]
               /\ error' = error
    /\ UNCHANGED <<quietVars, flyers, artifact, canvasVars, attempts, dashboardVars>>

NamingInit ==
  /\ InitShare
  /\ \E f \in NamingFlyers : flyers = {f}
  /\ InitNaming
  /\ InitCanvas
  /\ InitAttempts
  /\ InitSession
  /\ InitReview
  /\ InitExtra

NamingNext ==
  \/ \E f \in flyers : NameArtifact(f)
  \/ \E f \in flyers : handleDownload(f.id, f.title)

NamingSpec == NamingInit /\ [][NamingNext]_vars

(***************************************************************************)
(* The canvas strategy up to img.src = imageUrl, for every page location   *)
(* and every image URL of CanvasTargets.                                   *)
(***************************************************************************)
\* the executor of the canvas promise: new Image(), the crossOrigin decision,
\* the onload and onerror handlers, img.src = imageUrl
CreateImage(f) ==
  LET imageUrl == ImageUrl(f) IN
    /\ img' = [src |-> imageUrl,
               crossOrigin |-> IF IsCrossOrigin(imageUrl, Origin(location))
                               THEN "anonymous" ELSE "",
               created |-> TRUE]
    /\ UNCHANGED <<pageVars, localVars, traceVars, timers, namingVars, location, target,
                   attempts, dashboardVars>>

CanvasInit ==
  /\ InitShare
  /\ InitNaming
  /\ location \in Locations
  /\ target \in CanvasTargets
  /\ flyers = {[id |-> 1, title |-> <<"a">>, imageUrl |-> UrlText(target), imagePath |-> <<>>]}
  /\ img = NoImage
  /\ InitAttempts
  /\ InitSession
  /\ InitReview
  /\ InitExtra

CanvasNext == \E f \in flyers : CreateImage(f)

CanvasSpec == CanvasInit /\ [][CanvasNext]_vars

(***************************************************************************)
(* Overlapping share attempts.  Nothing in a handler waits for another     *)
(* call of a handler, so up to MaxAttempts calls are followed at once, each *)
(* through its two phases: acquiring the blob, and awaiting navigator.share.*)
(* Of a call only its effect on the state of the page is kept.             *)
(***************************************************************************)
InProgress(i) == attempts[i].pc \in {"acquire", "share"}

FreeSlots == {i \in 1..MaxAttempts : ~InProgress(i)}

\* a handler is called with the flyer of the modal; the slot of a call that
\* has ended is used again
Begin(h) ==
  /\ FreeSlots # {}
  /\ LET i == CHOOSE k \in FreeSlots : \A j \in FreeSlots : k <= j
     IN attempts' = [attempts EXCEPT ![i] =
                       [handler |-> h, flyer |-> selectedFlyer.id, pc |-> "acquire"]]

\* the messages a failed attempt can end with
FailureMessages == {EmptyPayloadMessage, UnableToAccessMessage}

\* the handler of slot i runs to its end: onClose() in handleWhatsAppShare,
\* setError in the catch block and setSharingId(null) in handleNativeShare
End(i, o, msg) ==
  /\ attempts' = [attempts EXCEPT ![i].pc = o]
  /\ IF attempts[i].handler = "whatsapp"
     THEN OnClose /\ sharingId' = sharingId
     ELSE /\ sharingId' = 0
          /\ error' = IF o = "Failed" THEN msg ELSE error
          /\ UNCHANGED <<shareModalOpen, selectedFlyer>>

\* the WhatsApp option of the rendered modal: ShareModal.handleWhatsAppShare
\* up to its first await
BeginWhatsAppShare ==
  /\ shareModalOpen /\ selectedFlyer # NoFlyer
  /\ Begin("whatsapp")
  /\ UNCHANGED <<pageVars, localVars, traceVars, timers, namingVars, canvasVars, dashboardVars>>

\* the More Options option of the rendered modal: onShare() runs
\* CompanyDashboard.handleNativeShare up to its first await, then onClose()
BeginNativeShare ==
  /\ shareModalOpen /\ selectedFlyer # NoFlyer
  /\ Begin("native")
  /\ sharingId' = selectedFlyer.id
  /\ OnClose
  /\ UNCHANGED <<localVars, traceVars, timers, namingVars, canvasVars, dashboardVars>>

\* the acquisition of slot i is over: the handler awaits navigator.share,
\* or ends in Downloaded (the file cannot be shared) or in Failed
AcquisitionEnds(i) ==
  /\ attempts[i].pc = "acquire"
  /\ \/ /\ attempts' = [attempts EXCEPT ![i].pc = "share"]
        /\ UNCHANGED pageVars
     \/ End(i, "Downloaded", "")
     \/ \E msg \in FailureMessages : End(i, "Failed", msg)
  /\ UNCHANGED <<localVars, traceVars, timers, namingVars, canvasVars, dashboardVars>>

\* navigator.share of slot i settles: Shared, Cancelled or Downloaded
ShareEnds(i) ==
  /\ attempts[i].pc = "share"
  /\ \E o \in {"Shared", "Cancelled", "Downloaded"} : End(i, o, "")
  /\ UNCHANGED <<localVars, traceVars, timers, namingVars, canvasVars, dashboardVars>>

OverlapNext ==
  \/ \E f \in Flyers : handleShare(f)
  \/ CloseModal
  \/ BeginWhatsAppShare
  \/ BeginNativeShare
  \/ \E i \in 1..MaxAttempts : AcquisitionEnds(i)
  \/ \E i \in 1..MaxAttempts : ShareEnds(i)

OverlapSpec == Init /\ [][OverlapNext]_vars

(***************************************************************************)
(* The initialization effects of the two dashboards, for every session.    *)
(* A visit of /company or /admin mounts the page with fresh state and runs *)
(* its effects; navigate('/login') unmounts it.                            *)
(***************************************************************************)
\* everything but the session and the dashboards
outsideSession ==
  <<pageVars, localVars, traceVars, timers, namingVars, canvasVars, attempts, reviewVars,
    formVars, listVars, variantVars>>

\* the useState initial values of a dashboard
FreshPage ==
  /\ currentYear' = now.year
  /\ currentMonth' = now.month
  /\ companies' = {}
  /\ companyId' = <<>>
  /\ adminError' = ""

Request(api) == [api |-> api, role |-> user.role, companyId |-> user.companyId]

\* the effect of CompanyDashboard on [user, navigate, fetchFlyers], with
\* fetchFlyers up to await flyerAPI.getFlyersByCompany
CompanyEffect(year, month) ==
  IF ~CompanySessionOK(user)
  THEN /\ page' = "/login"
       /\ lastRun' = [component |-> "CompanyDashboard", user |-> user,
                      navigated |-> TRUE, issued |-> "none"]
       /\ requests' = requests
       /\ FreshPage
       /\ companiesPending' = FALSE
  ELSE /\ page' = "/company"
       /\ currentYear' = year
       /\ currentMonth' = month
       /\ UNCHANGED <<companies, companyId, companiesPending, adminError>>
       /\ IF user.companyId = 0
          THEN \* fetchFlyers: if (!user?.companyId) return
               /\ lastRun' = [component |-> "CompanyDashboard", user |-> user,
                              navigated |-> FALSE, issued |-> "none"]
               /\ requests' = requests
          ELSE /\ lastRun' = [component |-> "CompanyDashboard", user |-> user,
                              navigated |-> FALSE, issued |-> "getFlyersByCompany"]
               /\ requests' = requests \cup {Request("getFlyersByCompany")}

\* the route /company is visited: CompanyDashboard mounts
OpenCompanyDashboard ==
  /\ page # "/company"
  /\ CompanyEffect(now.year, now.month)
  /\ trail' = <<>>
  /\ UNCHANGED <<user, now, outsideSession>>

\* the route /admin is visited: AdminDashboard mounts, its first effect runs
\* fetchCompanies up to await companyAPI.getAll, its second finds no company
OpenAdminDashboard ==
  /\ page # "/admin"
  /\ FreshPage
  /\ IF ~AdminSessionOK(user)
     THEN /\ page' = "/login"
          /\ lastRun' = [component |-> "AdminDashboard", user |-> user,
                         navigated |-> TRUE, issued |-> "none"]
          /\ requests' = requests
     ELSE /\ page' = "/admin"
          /\ lastRun' = [component |-> "AdminDashboard", user |-> user,
                         navigated |-> FALSE, issued |-> "company.getAll"]
          /\ requests' = requests \cup {Request("company.getAll")}
  /\ companiesPending' = AdminSessionOK(user)
  /\ trail' = <<>>
  /\ UNCHANGED <<user, now, outsideSession>>

\* the effect of AdminDashboard on [companies, fetchFlyers], with fetchFlyers
\* up to await flyerAPI.getAll
FlyersEffect(loaded) ==
  requests' = IF loaded # {} THEN requests \cup {Request("flyer.getAll")} ELSE requests

\* companyAPI.getAll settles in the mounted AdminDashboard
CompaniesSettle ==
  /\ page = "/admin" /\ companiesPending
  /\ companiesPending' = FALSE
  /\ \E r \in CompaniesResults :
       IF r.ok
       THEN /\ companies' = r.data
            /\ companyId' = IF r.data # {}
                            THEN IdText(CHOOSE c \in r.data : \A d \in r.data : c <= d)
                            ELSE companyId
            /\ FlyersEffect(r.data)
            /\ adminError' = adminError
       ELSE /\ adminError' = "Failed to load companies"
            /\ UNCHANGED <<companies, companyId, requests>>
  /\ UNCHANGED <<user, page, now, currentYear, currentMonth, lastRun, trail, outsideSession>>

\* handleMonthChange of the mounted dashboard and the effects that depend
\* on fetchFlyers
handleMonthChange(year, month) ==
  /\ page \in {"/company", "/admin"}
  /\ year \in (now.year - MaxYearSpan)..(now.year + MaxYearSpan)
  /\ IF page = "/company"
     THEN CompanyEffect(year, month)
     ELSE /\ currentYear' = year
          /\ currentMonth' = month
          /\ FlyersEffect(companies)
          /\ UNCHANGED <<page, companies, companyId, companiesPending, adminError, lastRun>>
  /\ UNCHANGED <<user, now, outsideSession>>

\* the click is kept with the currentYear and currentMonth props it read;
\* of the clicks before it the last one is kept
Clicked(button) ==
  trail' = (IF trail = <<>> THEN <<>> ELSE <<trail[Len(trail)]>>)
             \o <<[button |-> button, year |-> currentYear, month |-> currentMonth]>>

\* variant: Previous from January stays in the year
PreviousMonth_SameYear(year, month) ==
  IF month = 1 THEN <<year, 12>> ELSE <<year, month - 1>>

\* the arguments handlePrevious passes to onMonthChange
PreviousMonth(year, month) ==
  IF month = 1 THEN <<year - 1, 12>> ELSE <<year, month - 1>>

\* variant: Next from December goes on to a month 13
NextMonth_NoWrap(year, month) == <<year, month + 1>>

\* the arguments handleNext passes to onMonthChange
NextMonth(year, month) ==
  IF month = 12 THEN <<year + 1, 1>> ELSE <<year, month + 1>>

\* MonthNavigator.handlePrevious
handlePrevious ==
  /\ LET to == PreviousMonth(currentYear, currentMonth) IN handleMonthChange(to[1], to[2])
  /\ Clicked("Previous")

\* MonthNavigator.handleNext
handleNext ==
  /\ LET to == NextMonth(currentYear, currentMonth) IN handleMonthChange(to[1], to[2])
  /\ Clicked("Next")

\* a visit of the application with any session, in any month
SessionInit ==
  /\ InitShare
  /\ flyers = {}
  /\ InitNaming
  /\ InitCanvas
  /\ InitAttempts
  /\ user \in Sessions
  /\ page = "/login"
  /\ \E m \in Months : now = [year |-> 2026, month |-> m]
  /\ currentYear = now.year
  /\ currentMonth = now.month
  /\ companies = {}
  /\ companiesPending = FALSE
  /\ adminError = ""
  /\ lastRun = NoRun
  /\ requests = {}
  /\ trail = <<>>
  /\ InitReview
  /\ InitExtra

SessionNext ==
  \/ OpenCompanyDashboard
  \/ OpenAdminDashboard
  \/ CompaniesSettle
  \/ handlePrevious
  \/ handleNext

SessionSpec == SessionInit /\ [][SessionNext]_vars

(***************************************************************************)
(* ReviewBoxTab: the customer list, the add form, deactivation and paging. *)
(* A response that arrives after the tab was left finds it unmounted and   *)
(* changes nothing.                                                        *)
(***************************************************************************)
outsideReview ==
  <<pageVars, localVars, traceVars, timers, namingVars, canvasVars, attempts, sessionVars,
    uploadVars, listVars, variantVars>>

\* the useState initial values of ReviewBoxTab
FreshTab ==
  /\ customers' = <<>>
  /\ loading' = TRUE
  /\ submitting' = FALSE
  /\ customerName' = <<>>
  /\ phoneNumber' = <<>>
  /\ successMsg' = ""
  /\ errorMsg' = ""
  /\ currentPage' = 1
  /\ adding' = Orphaned(adding)
  /\ deactivating' = {}

\* a tab button: entering the review tab mounts ReviewBoxTab, whose effect
\* runs fetchCustomers up to its await; leaving it unmounts ReviewBoxTab
setActiveTab(t) ==
  /\ t # activeTab
  /\ activeTab' = t
  /\ IF t = "reviewbox" \/ activeTab = "reviewbox"
     THEN /\ FreshTab
          /\ fetching' = (t = "reviewbox")
          /\ event' = NoEvent
     ELSE UNCHANGED <<customers, loading, submitting, customerName, phoneNumber, successMsg,
                      errorMsg, currentPage, adding, deactivating, fetching, event>>
  /\ UNCHANGED outsideReview

\* fetchCustomers after its await
CustomersSettle ==
  /\ activeTab = "reviewbox" /\ fetching
  /\ fetching' = FALSE
  /\ loading' = FALSE
  /\ \E r \in CustomersResponses :
       IF r.ok
       THEN /\ customers' = r.data
            /\ errorMsg' = errorMsg
            /\ event' = [kind |-> "loaded", id |-> 0]
       ELSE /\ customers' = customers
            /\ errorMsg' = "Failed to load review customers."
            /\ event' = [kind |-> "loadFailed", id |-> 0]
  /\ UNCHANGED <<activeTab, submitting, customerName, phoneNumber, successMsg, currentPage,
                 adding, deactivating, outsideReview>>

\* onChange of the name input
setCustomerName(v) ==
  /\ activeTab = "reviewbox" /\ ~submitting
  /\ customerName' = v
  /\ event' = NoEvent
  /\ UNCHANGED <<activeTab, customers, loading, submitting, phoneNumber, successMsg, errorMsg,
                 currentPage, fetching, adding, deactivating, outsideReview>>

\* onChange of the phone input
setPhoneNumber(v) ==
  /\ activeTab = "reviewbox" /\ ~submitting
  /\ phoneNumber' = DigitsOf(v)
  /\ event' = NoEvent
  /\ UNCHANGED <<activeTab, customers, loading, submitting, customerName, successMsg, errorMsg,
                 currentPage, fetching, adding, deactivating, outsideReview>>

\* handleAddCustomer up to await reviewAPI.addCustomer, behind a submit
\* button disabled while submitting
handleAddCustomer ==
  /\ activeTab = "reviewbox" /\ ~submitting
  /\ successMsg' = ""
  /\ LET trimmedName == Trim(customerName)
         trimmedPhone == Trim(phoneNumber)
     IN IF trimmedName = <<>> \/ trimmedPhone = <<>>
        THEN /\ errorMsg' = "Please fill in both Customer Name and Phone Number."
             /\ event' = [kind |-> "addInvalid", id |-> 0]
             /\ UNCHANGED <<submitting, adding>>
        ELSE IF ~PhoneOK(trimmedPhone)
        THEN /\ errorMsg' = "Phone number must be 10-15 digits with country code (e.g., 919076006262)."
             /\ event' = [kind |-> "addInvalid", id |-> 0]
             /\ UNCHANGED <<submitting, adding>>
        ELSE /\ Len(adding) < MaxInFlight
             /\ errorMsg' = ""
             /\ submitting' = TRUE
             /\ adding' = Append(adding, [name |-> trimmedName, phone |-> trimmedPhone,
                                          mounted |-> TRUE])
             /\ event' = [kind |-> "addSent", id |-> 0]
  /\ UNCHANGED <<activeTab, customers, loading, customerName, phoneNumber, currentPage,
                 fetching, deactivating, outsideReview>>

\* reviewAPI.addCustomer settles: handleAddCustomer after its await, or
\* nothing when the tab that sent the request is unmounted
AddCustomerSettles ==
  \E i \in DOMAIN adding :
    /\ adding' = Without(adding, i)
    /\ IF ~adding[i].mounted
       THEN /\ event' = NoEvent
            /\ UNCHANGED <<customers, submitting, customerName, phoneNumber, successMsg,
                           errorMsg, currentPage>>
       ELSE /\ submitting' = FALSE
            /\ \E r \in AddResponses :
                 IF r.ok
                 THEN /\ Cardinality({k \in DOMAIN customers : customers[k].id >= 100}) < MaxAdded
                      /\ \E newCustomer \in NewCustomers(customers) :
                           /\ customers' = <<newCustomer>> \o customers
                           /\ event' = [kind |-> "added", id |-> newCustomer.id]
                      /\ customerName' = <<>>
                      /\ phoneNumber' = <<>>
                      /\ successMsg' = "Review request sent"
                      /\ currentPage' = PageAfterAdd(currentPage)
                      /\ errorMsg' = errorMsg
                 ELSE /\ errorMsg' = AddErrorMessage(r)
                      /\ event' = [kind |-> IF r.message = GbpMessage THEN "addRejectedNoLink"
                                             ELSE "addFailed", id |-> 0]
                      /\ UNCHANGED <<customers, customerName, phoneNumber, successMsg,
                                     currentPage>>
    /\ UNCHANGED <<activeTab, loading, fetching, deactivating, outsideReview>>

\* handleDeactivate up to await reviewAPI.deactivateCustomer, from the Stop
\* Messages button of an active customer of the page shown
handleDeactivate(customerId) ==
  /\ activeTab = "reviewbox" /\ ~loading
  /\ \E c \in Paginated(customers, currentPage) : c.id = customerId /\ c.isActive
  /\ \E confirmed \in BOOLEAN :
       IF confirmed
       THEN /\ deactivating' = deactivating \cup {customerId}
            /\ event' = [kind |-> "deactivateSent", id |-> customerId]
       ELSE /\ deactivating' = deactivating
            /\ event' = [kind |-> "confirmDeclined", id |-> customerId]
  /\ UNCHANGED <<activeTab, customers, loading, submitting, customerName, phoneNumber,
                 successMsg, errorMsg, currentPage, fetching, adding, outsideReview>>

\* handleDeactivate after its await
DeactivateSettles(customerId) ==
  /\ activeTab = "reviewbox" /\ customerId \in deactivating
  /\ deactivating' = deactivating \ {customerId}
  /\ \E ok \in BOOLEAN :
       IF ok
       THEN /\ customers' = SoftDelete(customers, customerId)
            /\ successMsg' = "Messages stopped"
            /\ errorMsg' = errorMsg
            /\ event' = [kind |-> "deactivated", id |-> customerId]
       ELSE /\ customers' = customers
            /\ successMsg' = successMsg
            /\ errorMsg' = "Failed to stop messages. Please try again."
            /\ event' = [kind |-> "deactivateFailed", id |-> customerId]
  /\ UNCHANGED <<activeTab, loading, submitting, customerName, phoneNumber, currentPage,
                 fetching, adding, outsideReview>>

\* the Previous button of the pagination
PreviousPage ==
  /\ activeTab = "reviewbox" /\ ~loading
  /\ Paginated(customers, currentPage) # {}
  /\ TotalPages(customers) > 1 /\ currentPage # 1
  /\ currentPage' = currentPage - 1
  /\ event' = NoEvent
  /\ UNCHANGED <<activeTab, customers, loading, submitting, customerName, phoneNumber,
                 successMsg, errorMsg, fetching, adding, deactivating, outsideReview>>

\* the Next button of the pagination
NextPage ==
  /\ activeTab = "reviewbox" /\ ~loading
  /\ Paginated(customers, currentPage) # {}
  /\ TotalPages(customers) > 1 /\ currentPage # TotalPages(customers)
  /\ currentPage' = currentPage + 1
  /\ event' = NoEvent
  /\ UNCHANGED <<activeTab, customers, loading, submitting, customerName, phoneNumber,
                 successMsg, errorMsg, fetching, adding, deactivating, outsideReview>>

\* the timers of the two message effects: setSuccessMsg(''), setErrorMsg('')
ClearMessage ==
  /\ activeTab = "reviewbox"
  /\ \/ successMsg # "" /\ successMsg' = "" /\ errorMsg' = errorMsg
     \/ errorMsg # "" /\ errorMsg' = "" /\ successMsg' = successMsg
  /\ event' = NoEvent
  /\ UNCHANGED <<activeTab, customers, loading, submitting, customerName, phoneNumber,
                 currentPage, fetching, adding, deactivating, outsideReview>>

ReviewNext ==
  \/ \E t \in {"flyers", "reviewbox", "settings"} : setActiveTab(t)
  \/ CustomersSettle
  \/ \E v \in NameInputs : setCustomerName(v)
  \/ \E v \in PhoneInputs : setPhoneNumber(v)
  \/ handleAddCustomer
  \/ AddCustomerSettles
  \/ \E c \in Range(customers) : handleDeactivate(c.id)
  \/ \E id \in deactivating : DeactivateSettles(id)
  \/ PreviousPage
  \/ NextPage
  \/ ClearMessage

ReviewSpec == Init /\ [][ReviewNext]_vars

(***************************************************************************)
(* The upload form of AdminDashboard, for an Admin session.  The inputs of *)
(* the form stay enabled during an upload; only the submit button is       *)
(* disabled, and Enter does not submit.                                    *)
(***************************************************************************)
\* the session and the page outside the upload form
quietSession == <<user, page, now, currentYear, currentMonth, companies, companiesPending,
                  lastRun, trail>>

outsideUpload ==
  <<pageVars, localVars, traceVars, timers, namingVars, canvasVars, attempts, reviewVars,
    listVars, variantVars, quietSession>>

\* the radio buttons of the title selection
setTitleMode(m) ==
  /\ page = "/admin" /\ m # titleMode
  /\ titleMode' = m
  /\ uploadStep' = NoStep
  /\ UNCHANGED <<uploadTitle, companyId, forDate, file, uploading, adminMessage, uploads,
                 adminError, requests, outsideUpload>>

\* onChange of the title select or input
setTitle(v) ==
  /\ page = "/admin"
  /\ uploadTitle' = v
  /\ uploadStep' = NoStep
  /\ UNCHANGED <<titleMode, companyId, forDate, file, uploading, adminMessage, uploads,
                 adminError, requests, outsideUpload>>

\* onChange of the date input
setForDate(v) ==
  /\ page = "/admin"
  /\ forDate' = v
  /\ uploadStep' = NoStep
  /\ UNCHANGED <<uploadTitle, titleMode, companyId, file, uploading, adminMessage, uploads,
                 adminError, requests, outsideUpload>>

\* onChange of the company select
setCompanyId(v) ==
  /\ page = "/admin"
  /\ v \in CompanyOptions(companies)
  /\ companyId' = v
  /\ uploadStep' = NoStep
  /\ UNCHANGED <<uploadTitle, titleMode, forDate, file, uploading, adminMessage, uploads,
                 adminError, requests, outsideUpload>>

\* AdminDashboard.handleFileChange
handleFileChange(selectedFile) ==
  /\ page = "/admin"
  /\ IF selectedFile = NoFile
     THEN UNCHANGED <<file, adminError>>
     ELSE IF selectedFile.type \notin ValidTypes
     THEN /\ adminError' = "Only PNG and JPG files are allowed"
          /\ file' = NoFile
     ELSE /\ file' = selectedFile
          /\ adminError' = ""
  /\ uploadStep' = NoStep
  /\ UNCHANGED <<uploadTitle, titleMode, companyId, forDate, uploading, adminMessage, uploads,
                 requests, outsideUpload>>

\* AdminDashboard.handleSubmit up to await flyerAPI.uploadFlyer, behind a
\* submit button disabled while uploading
handleSubmit ==
  /\ page = "/admin" /\ ~uploading
  /\ adminMessage' = ""
  /\ LET finalTitle == uploadTitle IN
       IF finalTitle = <<>> \/ companyId = <<>> \/ file = NoFile \/ forDate = <<>>
       THEN /\ adminError' = "Please fill all fields and select a file"
            /\ uploadStep' = [kind |-> "submitInvalid"]
            /\ UNCHANGED <<uploading, uploads>>
       ELSE IF ParseInt(companyId) = NaN
       THEN /\ adminError' = "Please select a valid company"
            /\ uploadStep' = [kind |-> "submitInvalid"]
            /\ UNCHANGED <<uploading, uploads>>
       ELSE /\ adminError' = ""
            /\ uploading' = TRUE
            /\ uploads' = Append(uploads, [title |-> finalTitle,
                                            companyId |-> ParseInt(companyId),
                                            forDate |-> forDate, file |-> file])
            /\ uploadStep' = [kind |-> "submitSent"]
  /\ UNCHANGED <<uploadTitle, titleMode, companyId, forDate, file, requests, outsideUpload>>

\* AdminDashboard.handleSubmit after its await: on success the form is
\* emptied and fetchFlyers is called
UploadSettles ==
  /\ page = "/admin" /\ uploads # <<>>
  /\ uploads' = Tail(uploads)
  /\ uploading' = FALSE
  /\ \E r \in UploadResponses :
       IF r.ok
       THEN /\ adminMessage' = "Flyer uploaded successfully!"
            /\ uploadTitle' = <<>>
            /\ forDate' = <<>>
            /\ file' = NoFile
            /\ titleMode' = "predefined"
            /\ requests' = requests \cup {Request("flyer.getAll")}
            /\ uploadStep' = [kind |-> "uploaded"]
            /\ UNCHANGED adminError
       ELSE /\ adminError' = IF r.message # "" THEN r.message ELSE "Failed to upload flyer"
            /\ uploadStep' = [kind |-> "uploadFailed"]
            /\ UNCHANGED <<uploadTitle, titleMode, forDate, file, adminMessage, requests>>
  /\ UNCHANGED <<companyId, outsideUpload>>

\* an Admin opens the application
UploadInit ==
  /\ InitShare
  /\ flyers = {}
  /\ InitNaming
  /\ InitCanvas
  /\ InitAttempts
  /\ user = [role |-> "Admin", companyId |-> 0]
  /\ page = "/login"
  /\ now = [year |-> 2026, month |-> 11]
  /\ currentYear = now.year
  /\ currentMonth = now.month
  /\ companies = {}
  /\ companiesPending = FALSE
  /\ adminError = ""
  /\ lastRun = NoRun
  /\ requests = {}
  /\ trail = <<>>
  /\ InitReview
  /\ InitExtra

UploadNext ==
  \/ OpenAdminDashboard
  \/ CompaniesSettle
  \/ \E m \in {"predefined", "custom"} : setTitleMode(m)
  \/ \E v \in TitleInputs : setTitle(v)
  \/ \E v \in DateInputs : setForDate(v)
  \/ \E v \in CompanyOptions(companies) : setCompanyId(v)
  \/ \E f \in FileChoices : handleFileChange(f)
  \/ handleSubmit
  \/ UploadSettles

UploadSpec == UploadInit /\ [][UploadNext]_vars

(***************************************************************************)
(* The flyer list of a mounted dashboard.  Every change of the month or of *)
(* the company filter runs fetchFlyers, whose request stays in flight      *)
(* until its response arrives; responses arrive in any order.              *)
(***************************************************************************)
\* months the navigation may move away from the month of the visit
MaxMonthsAway == 2

\* flyer list requests that may be in flight at once
MaxPending == 2

\* the parameters of a flyer list request; company 0 is no company filter
FlyerKey(year, month, company) == [year |-> year, month |-> month, company |-> company]

\* the flyers the server keeps for a month and a company, normalized
FlyersFor(k) ==
  {[id |-> (k.year * 12 + k.month) * 10 + k.company, title |-> <<"P","r","o","m","o">>,
    imageUrl |-> <<>>, imagePath |-> <<"/","u","/","f",".","J","P","G">>]}

\* the parameters fetchFlyers of the mounted dashboard sends for a selection
KeyOf(year, month, filter) ==
  IF page = "/company" THEN FlyerKey(year, month, user.companyId)
  ELSE FlyerKey(year, month, filter)

\* months between the month of the visit and a month
MonthsAway(year, month) ==
  LET d == 12 * (year - now.year) + month - now.month IN IF d < 0 THEN -d ELSE d

outsideList ==
  <<shareModalOpen, selectedFlyer, sharingId, localVars, traceVars, timers, artifact, link,
    canvasVars, attempts, reviewVars, uploadVars, variantVars, user, page, now, companies,
    companiesPending, lastRun>>

\* fetchFlyers up to its await, with the request followed
SendFlyersRequest(k) ==
  /\ Cardinality(flyerCalls \cup {k}) <= MaxPending
  /\ flyerCalls' = flyerCalls \cup {k}
  /\ flyersLoading' = (IF page = "/company" THEN TRUE ELSE flyersLoading)
  /\ requests' = requests \cup {Request(IF page = "/company" THEN "getFlyersByCompany"
                                         ELSE "flyer.getAll")}

\* a click of MonthNavigator in the mounted dashboard: handleMonthChange,
\* then the effect that depends on fetchFlyers
MonthClick(button) ==
  LET to == IF button = "Next" THEN NextMonth(currentYear, currentMonth)
            ELSE PreviousMonth(currentYear, currentMonth)
  IN /\ page \in {"/company", "/admin"}
     /\ MonthsAway(to[1], to[2]) <= MaxMonthsAway
     /\ currentYear' = to[1]
     /\ currentMonth' = to[2]
     /\ Clicked(button)
     /\ SendFlyersRequest(KeyOf(to[1], to[2], selectedCompanyFilter))
     /\ UNCHANGED <<error, flyers, adminError, allFlyers, selectedCompanyFilter, outsideList>>

\* AdminDashboard.handleCompanyFilterChange from CompanySelector, then the
\* effect that depends on fetchFlyers
handleCompanyFilterChange(c) ==
  /\ page = "/admin"
  /\ c \in {0} \cup companies /\ c # selectedCompanyFilter
  /\ selectedCompanyFilter' = c
  /\ SendFlyersRequest(KeyOf(currentYear, currentMonth, c))
  /\ UNCHANGED <<error, flyers, adminError, allFlyers, currentYear, currentMonth, trail,
                 outsideList>>

\* fetchFlyers after its await: the response of the request k
FlyersSettle(k) ==
  /\ k \in flyerCalls
  /\ flyerCalls' = flyerCalls \ {k}
  /\ \E ok \in BOOLEAN :
       IF page = "/company"
       THEN /\ flyers' = (IF ok THEN FlyersFor(k) ELSE flyers)
            /\ error' = (IF ok THEN error ELSE "Failed to load flyers")
            /\ flyersLoading' = FALSE
            /\ UNCHANGED <<allFlyers, adminError>>
       ELSE /\ allFlyers' = (IF ok THEN FlyersFor(k) ELSE allFlyers)
            /\ adminError' = (IF ok THEN adminError ELSE "Failed to load flyers")
            /\ UNCHANGED <<flyers, error, flyersLoading>>
  /\ UNCHANGED <<currentYear, currentMonth, trail, requests, selectedCompanyFilter, outsideList>>

\* a dashboard in December, mounted, with its first flyer request in flight:
\* CompanyDashboard of company 5, or AdminDashboard with its companies loaded
ListInit ==
  /\ InitShare
  /\ flyers = {}
  /\ InitNaming
  /\ InitCanvas
  /\ InitAttempts
  /\ \/ user = [role |-> "Company", companyId |-> 5] /\ page = "/company" /\ companies = {}
        /\ companyId = <<>>
     \/ user = [role |-> "Admin", companyId |-> 0] /\ page = "/admin" /\ companies = {5, 6}
        /\ companyId = IdText(5)
  /\ now = [year |-> 2026, month |-> 12]
  /\ currentYear = now.year
  /\ currentMonth = now.month
  /\ companiesPending = FALSE
  /\ adminError = ""
  /\ lastRun = NoRun
  /\ requests = {Request(IF page = "/company" THEN "getFlyersByCompany" ELSE "flyer.getAll")}
  /\ trail = <<>>
  /\ InitReview
  /\ InitForm
  /\ flyerCalls = {KeyOf(now.year, now.month, 0)}
  /\ allFlyers = {}
  /\ selectedCompanyFilter = 0
  /\ flyersLoading = TRUE
  /\ InitVariants

ListNext ==
  \/ \E b \in {"Previous", "Next"} : MonthClick(b)
  \/ \E c \in {0} \cup companies : handleCompanyFilterChange(c)
  \/ \E k \in flyerCalls : FlyersSettle(k)

ListSpec == ListInit /\ [][ListNext]_vars

(***************************************************************************)
(* The three versions of CompanyDashboard.handleNativeShare, each run on   *)
(* the same flyer with the same answers of the environment: the file of    *)
(* src/src/pages ("current") and the two of src/unnamed/part_001 ("first", *)
(* "second").  A run is given by what each awaited operation answers when  *)
(* the version calls it.                                                   *)
(***************************************************************************)
\* the answers of the environment: one for each operation a version may await
Environments ==
  [download : DownloadResults,
   fetch : FetchResults,
   fetchBlob : FetchBlobResults,
   canvas : CanvasResults,
   capability : Capabilities,
   share : ShareResults,
   clipboard : {"ok", "rejected"}]

\* how a run ends: the outcome and the name of the file shared or downloaded
RunResult(o, name) == [outcome |-> o, fileName |-> name]

\* from new File(...) to the end, in the file of src/src/pages and in the
\* second version: the cancellation test takes AbortError and NotAllowedError
DeliverFile(name, e) ==
  IF CanShareFiles("native", e.capability)
  THEN IF ~e.capability.share THEN RunResult("Downloaded", name)
       ELSE IF e.share = "ok" THEN RunResult("Shared", name)
       ELSE IF IsCancellation(e.share) THEN RunResult("Cancelled", name)
       ELSE RunResult("Downloaded", name)
  ELSE RunResult("Downloaded", name)

\* the blob of the three acquisition strategies: "failed" when the handler
\* throws before it has one
AcquiredBlob(f, e) ==
  IF ~DownloadRejects(e.download)
  THEN (CASE e.download = "blob" -> "data" [] e.download = "empty" -> "empty"
          [] OTHER -> "undefined")
  ELSE IF ImageUrl(f) = <<>> THEN "failed"
  ELSE IF ~FetchRejects(e.fetch) /\ ~FetchRejects(e.fetchBlob)
  THEN (IF e.fetchBlob = "blob" THEN "data" ELSE "empty")
  ELSE IF e.canvas = "blob" THEN "data" ELSE "failed"

\* CompanyDashboard.handleNativeShare of src/src/pages
CurrentVersion(f, e) ==
  LET b == AcquiredBlob(f, e) IN
    IF b = "failed" \/ BlobIsEmpty(b) THEN RunResult("Failed", <<>>)
    ELSE DeliverFile(ComputeFileName(f), e)

\* the second version: as the file of src/src/pages, with
\* navigator.clipboard.writeText before navigator.share, in a try of its own
\* whose catch only logs, and a text in the share data
SecondVersion(f, e) ==
  LET b == AcquiredBlob(f, e) IN
    IF b = "failed" \/ BlobIsEmpty(b) THEN RunResult("Failed", <<>>)
    ELSE DeliverFile(ComputeFileName(f), e)

\* the first version: fetch(flyer.imagePath) alone, no test of the blob size,
\* the extension taken from flyer.imagePath as it is, AbortError the only
\* cancellation, every caught error shown
FirstVersion(f, e) ==
  IF FetchRejects(e.fetch) \/ FetchRejects(e.fetchBlob) THEN RunResult("Failed", <<>>)
  ELSE IF f.imagePath = <<>> THEN RunResult("Failed", <<>>)
  ELSE LET extension == ToLowerCase(AfterLast(f.imagePath, "."))
           name == Sanitize(f.title) \o <<".">> \o extension
       IN IF e.capability.canShare /\ e.capability.result
          THEN IF ~e.capability.share THEN RunResult("Downloaded", name)
               ELSE IF e.share = "ok" THEN RunResult("Shared", name)
               ELSE IF e.share = "AbortError" THEN RunResult("Cancelled", name)
               ELSE RunResult("Downloaded", name)
          ELSE RunResult("Downloaded", name)

\* a call of a version of handleNativeShare, from its start to its end
RunVersion(v) ==
  /\ runs[v] = NoRunResult
  /\ runs' = [runs EXCEPT ![v] =
                CASE v = "current" -> CurrentVersion(scenario.flyer, scenario.env)
                  [] v = "first" -> FirstVersion(scenario.flyer, scenario.env)
                  [] OTHER -> SecondVersion(scenario.flyer, scenario.env)]
  /\ UNCHANGED <<pageVars, localVars, traceVars, timers, namingVars, canvasVars, attempts,
                 sessionVars, reviewVars, uploadVars, listVars, scenario>>

\* a flyer of the page and the answers of the environment, no version run
VariantInit ==
  /\ InitShare
  /\ flyers = Flyers
  /\ InitNaming
  /\ InitCanvas
  /\ InitAttempts
  /\ InitSession
  /\ InitReview
  /\ InitUpload
  /\ InitList
  /\ scenario \in [chosen : {TRUE}, flyer : Flyers, env : Environments]
  /\ runs = [v \in Variants |-> NoRunResult]

VariantNext == \E v \in Variants : RunVersion(v)

VariantSpec == VariantInit /\ [][VariantNext]_vars

(***************************************************************************)
(* Properties.                                                             *)
(***************************************************************************)
Done == pc = "done"

Stage(i) == result[Strategies[i]]

StageThrew(i) ==
  Stage(i) \in {"http404", "http403", "http500", "noresponse",
                "notok", "rejected", "null", "throws", "loaderror"}

StageReturned(i) == Stage(i) \in {"blob", "empty", "missing"}

ErrorAlerts == {i \in DOMAIN alerts : alerts[i] # InstructionsAlert}

\* C1: in one share attempt the strategies are called in the order download
\* endpoint, direct fetch, canvas re-encode, each at most once, a strategy
\* only after every earlier one threw and none after an earlier one returned.
C1_StrategyOrder ==
  /\ Len(attempted) <= Len(Strategies)
  /\ \A i \in DOMAIN attempted : attempted[i] = Strategies[i]
  /\ \A i \in DOMAIN attempted : \A j \in 1..(i-1) : StageThrew(j)
  /\ \A i \in DOMAIN attempted : StageReturned(i) => Len(attempted) = i

C1_Witness == Done /\ attempted = Strategies /\ result.canvas = "blob"

\* C2: a zero-length blob from the download endpoint makes the handler try
\* the next strategy, as a throwing download endpoint does.
C2_EmptyBlobFallsThrough ==
  (result.download \in {"empty", "missing"} /\ ImageUrl(flyer) # <<>>)
    => Len(attempted) >= 2

\* C3 as stated: a non-empty blob from the download endpoint ends the attempt
\* in Shared or Downloaded, without error alert or error state.
C3_SharedOrDownloaded ==
  (Done /\ result.download = "blob")
    => /\ outcome \in {"Shared", "Downloaded"}
       /\ ErrorAlerts = {}
       /\ error = ""

\* C3 as amended: a non-empty blob from the download endpoint ends the attempt
\* in Shared, Downloaded or Cancelled, never in Failed, without error alert or
\* error state; it ends in Cancelled only when the share call was rejected.
C3_NeverFailed ==
  (Done /\ result.download = "blob")
    => /\ outcome \in {"Shared", "Downloaded", "Cancelled"}
       /\ outcome = "Cancelled" => result.share \notin {"none", "ok"}
       /\ ErrorAlerts = {}
       /\ cause = ""
       /\ error = ""

C3_Witness == Done /\ result.download = "blob" /\ outcome = "Downloaded"

\* C4: a share call rejected with AbortError ends the attempt in Cancelled,
\* with no alert, no error message and no fallback download.
C4_AbortIsSilent ==
  (Done /\ result.share = "AbortError")
    => /\ outcome = "Cancelled"
       /\ alerts = <<>>
       /\ downloads = <<>>
       /\ cause = ""
       /\ error = ""

C4_Witness == Done /\ result.share = "AbortError" /\ handler = "native"

\* C5: bytes from the download endpoint and a share call rejected with
\* NotAllowedError end the attempt in Downloaded, with one fallback download
\* and the instructional alert shown exactly once.
C5_NotAllowedDownloads ==
  (Done /\ result.download = "blob" /\ result.share = "NotAllowedError")
    => /\ outcome = "Downloaded"
       /\ downloads = <<FileName(flyer)>>
       /\ alerts = <<InstructionsAlert>>

\* C6: with a non-empty blob, a platform that cannot share the file or a share
\* call that fails with anything but the user's dismissal gives exactly one
\* fallback download under the computed file name, exactly one instructional
\* alert and Downloaded; navigator.share is called only after the capability
\* check confirmed the file.
C6_FallbackDownload ==
  /\ shared # <<>> => (capability.checked /\ capability.canShare /\ capability.result)
  /\ (Done /\ blob = "data"
        /\ (~capability.result \/ result.share \in {"NotAllowedError", "DataError"}))
       => /\ outcome = "Downloaded"
          /\ downloads = <<FileName(flyer)>>
          /\ alerts = <<InstructionsAlert>>

AllowedTransitions ==
  { <<"Idle", "Acquiring">>, <<"Acquiring", "Sharing">>, <<"Acquiring", "Failed">>,
    <<"Sharing", "Shared">>, <<"Sharing", "Cancelled">>,
    <<"Sharing", "Downloading">>, <<"Downloading", "Downloaded">> }

PathOK ==
  /\ \A i \in 1..(Len(path) - 1) :
       <<path[i], path[i+1]>> \in AllowedTransitions /\ path[i] \notin Terminal
  /\ Done <=> path[Len(path)] \in Terminal
  /\ Done => outcome = path[Len(path)]
  /\ ~Done => outcome = "none"

C8_FailedAfterAllThree ==
  (outcome = "Failed" /\ ImageUrl(flyer) # <<>>)
    => (attempted = Strategies /\ \A i \in DOMAIN Strategies : StageThrew(i))

\* C9: when all three strategies failed, the message shown names the failure
\* of the download endpoint: not found for 404, access denied for 403, server
\* error for 5xx, network unreachable when no response arrived.
C9_SpecificCause ==
  (outcome = "Failed" /\ attempted = Strategies /\ \A i \in DOMAIN Strategies : StageThrew(i))
    => /\ result.download = "http404" => cause = "Image not found on server."
       /\ result.download = "http403" => cause = "Access denied to image."
       /\ result.download = "http500" => cause = "Server error. Please try again later."
       /\ result.download = "noresponse" => cause = "Network error: Unable to connect to server."

\* C10: when every acquisition stage that ran gave an empty or missing blob,
\* the attempt ends in Failed with 'Received empty image file', and neither
\* navigator.share nor the fallback download is used.
C10_EmptyPayload ==
  (Done /\ \A i \in DOMAIN attempted : Stage(i) \in {"empty", "missing"})
    => /\ outcome = "Failed"
       /\ cause = EmptyPayloadMessage
       /\ alerts = <<EmptyPayloadMessage>>
       /\ shared = <<>>
       /\ downloads = <<>>

C10_Witness == Done /\ result.download = "missing" /\ outcome = "Failed"

\* the positions of a call in the log of the attempt
Calls(name) == {i \in DOMAIN domLog : domLog[i] = name}

C13_UnderscoreForSpace ==
  (Done /\ flyer.id = 42 /\ result.download = "blob" /\ result.share = "ok")
    => /\ outcome = "Shared"
       /\ shared = << <<"S","u","m","m","e","r","_","S","a","l","e","_","_",
                       ".","j","p","g">> >>

\* C13 as amended: the same attempt ends in Shared with the file named
\* "Summer Sale__.jpg": the space of the title is kept, each "!" becomes "_".
C13_SpaceKept ==
  (Done /\ flyer.id = 42 /\ result.download = "blob" /\ result.share = "ok")
    => /\ outcome = "Shared"
       /\ shared = << <<"S","u","m","m","e","r"," ","S","a","l","e","_","_",
                       ".","j","p","g">> >>
       /\ MimeType(flyer) = "image/jpeg"

C13_Witness ==
  /\ Done /\ flyer.id = 42 /\ result.download = "blob" /\ result.share = "ok"
  /\ capability.share /\ capability.result /\ outcome = "Shared"

\* the flyer of the naming step
Named == CHOOSE f \in flyers : TRUE

\* C14: sanitizing a title twice gives what sanitizing it once gives, and the
\* sanitized title is as long as the title.
C14_SanitizeIdempotent ==
  \A f \in flyers :
    /\ Sanitize(Sanitize(f.title)) = Sanitize(f.title)
    /\ Len(Sanitize(f.title)) = Len(f.title)
    /\ artifact.built =>
         /\ SubSeq(artifact.name, 1, Len(f.title)) = Sanitize(f.title)
         /\ Sanitize(SubSeq(artifact.name, 1, Len(f.title))) = Sanitize(f.title)
    /\ link.clicked =>
         /\ SubSeq(link.download, 1, Len(f.title)) = Sanitize(f.title)
         /\ Sanitize(SubSeq(link.download, 1, Len(f.title))) = Sanitize(f.title)

C14_Witness ==
  /\ artifact.built /\ link.clicked
  /\ Named.title = <<"!", " ">>
  /\ SubSeq(artifact.name, 1, 2) = <<"_", " ">>

\* the suffix after the last '.' of the part of the URL before the first '?'
SuffixBeforeQuery(url) == AfterLast(BeforeFirst(url, "?"), ".")

\* C15: the share handlers and handleDownload all take the extension from
\* the part of the image URL before the first '?', also when the query
\* string contains a '.'.
C15_QueryStrippedFirst ==
  LET url == ImageUrl(Named)
      expected == OrElse(ToLowerCase(SuffixBeforeQuery(url)), <<"j","p","g">>)
  IN /\ artifact.built => artifact.extension = expected
     /\ link.clicked => link.extension = expected

\* the last path segment of the URL before the query string has a '.'
HasFileExtension(url) == "." \in Range(AfterLast(BeforeFirst(url, "?"), "/"))

\* C16: an image URL that is absent, or whose path before the query string
\* has no '.'-suffixed file name, gives extension "jpg" and type image/jpeg;
\* the type is image/png exactly when the extension is "png".
C16_DefaultsToJpg ==
  artifact.built =>
    /\ ~HasFileExtension(ImageUrl(Named)) =>
         (artifact.extension = <<"j","p","g">> /\ artifact.type = "image/jpeg")
    /\ artifact.type = "image/png" <=> artifact.extension = <<"p","n","g">>

\* the resource is served from the origin of the page: a relative URL is
\* resolved against the page, an absolute one names scheme and authority
SameOrigin(u, l) ==
  u.scheme = <<>> \/ (u.scheme = l.scheme /\ u.authority = l.authority)

\* C20: the canvas strategy sets crossOrigin on the image exactly when the
\* image URL is not same-origin with the page: never for a same-origin or
\* relative URL, always for a URL of another origin, one whose text begins
\* with the page origin included.
C20_CrossOriginIffOtherOrigin ==
  img.created => (img.crossOrigin = "anonymous" <=> ~SameOrigin(target, location))

\* C11: no two share attempts on the same flyer are in progress at the same
\* time: while an attempt on a flyer is in progress, started by either
\* option of the modal, no trigger can start another one on that flyer.
C11_OneAttemptPerFlyer ==
  \A i, j \in 1..MaxAttempts :
    (i # j /\ InProgress(i) /\ InProgress(j)) => attempts[i].flyer # attempts[j].flyer

\* C17: CompanyDashboard issues its flyer fetch only in a session with role
\* Company and a companyId, AdminDashboard its company fetch only in a
\* session with role Admin; in every other session the initialization
\* effect navigates to /login and issues no REST call.
C17_GatedFetch ==
  /\ \A r \in requests :
       /\ r.api = "getFlyersByCompany" => (r.role = "Company" /\ r.companyId # 0)
       /\ r.api = "company.getAll" => r.role = "Admin"
  /\ lastRun.component = "CompanyDashboard" =>
       IF lastRun.user.role = "Company" /\ lastRun.user.companyId # 0
       THEN ~lastRun.navigated /\ lastRun.issued = "getFlyersByCompany"
       ELSE lastRun.navigated /\ lastRun.issued = "none" /\ page = "/login"
  /\ lastRun.component = "AdminDashboard" =>
       IF lastRun.user.role = "Admin"
       THEN ~lastRun.navigated /\ lastRun.issued = "company.getAll"
       ELSE lastRun.navigated /\ lastRun.issued = "none" /\ page = "/login"
  /\ page = "/company" => (user.role = "Company" /\ user.companyId # 0)
  /\ page = "/admin" => user.role = "Admin"

C17_Witness ==
  /\ lastRun.component = "CompanyDashboard"
  /\ lastRun.user = [role |-> "Company", companyId |-> 0]
  /\ lastRun.navigated
  /\ requests = {}

\* the Day 0 / Day 1 / Day 3 flags of a customer
Flags(c) == <<c.day0Sent, c.day1Sent, c.day3Sent>>

\* C18: a confirmed deactivation that succeeds keeps the customer in the list
\* with isActive false and leaves every other customer as it was; a declined
\* confirmation or a failed request leaves the list as it was; no step of the
\* tab but the load of the list from the server gives a customer other flags.
C18_SoftDelete ==
  [][ /\ event'.kind = "deactivated" =>
           /\ Len(customers') = Len(customers)
           /\ \A i \in DOMAIN customers :
                /\ customers'[i].id = customers[i].id
                /\ customers[i].id = event'.id => ~customers'[i].isActive
                /\ customers[i].id # event'.id => customers'[i] = customers[i]
      /\ event'.kind \in {"confirmDeclined", "deactivateFailed"} => customers' = customers
      /\ (event'.kind # "loaded" /\ customers' # customers) =>
           \A i \in DOMAIN customers : \A j \in DOMAIN customers' :
             customers'[j].id = customers[i].id => Flags(customers'[j]) = Flags(customers[i])
    ]_vars

C18_Witness ==
  /\ event.kind = "deactivated"
  /\ Len(customers) = 12
  /\ \E i \in DOMAIN customers : customers[i].id = event.id /\ ~customers[i].isActive
  /\ \E i \in DOMAIN customers : customers[i].id # event.id /\ customers[i].isActive

\* C19: when the server rejects an added customer because the review link of
\* the company is not configured, the list, the two form fields and the page
\* stay as they were, the error tells to configure the Google Review Link in
\* Settings, and submitting goes back to false.
C19_NoLinkRejection ==
  [][ event'.kind = "addRejectedNoLink" =>
        /\ customers' = customers
        /\ customerName' = customerName
        /\ phoneNumber' = phoneNumber
        /\ currentPage' = currentPage
        /\ errorMsg' = ConfigureLinkMessage
        /\ submitting /\ ~submitting'
        /\ \A i \in DOMAIN adding' : ~adding'[i].mounted
    ]_vars

C19_Witness ==
  /\ event.kind = "addRejectedNoLink"
  /\ errorMsg = ConfigureLinkMessage
  /\ Trim(customerName) = <<"A", "l">>
  /\ PhoneOK(phoneNumber)
  /\ currentPage = 2
  /\ ~submitting

\* the last click of MonthNavigator and the selection it was made from
LastClick == trail[Len(trail)]

\* C27: the month shown is always in 1..12; a click on Next from month 12
\* gives month 1 of the next year, a click on Previous from month 1 gives
\* month 12 of the year before, and any other click moves the month by one
\* and leaves the year as it was.
C27_MonthInRange ==
  /\ currentMonth \in Months
  /\ trail # <<>> =>
       /\ LastClick.month \in Months
       /\ LastClick.button = "Next" =>
            IF LastClick.month = 12
            THEN currentYear = LastClick.year + 1 /\ currentMonth = 1
            ELSE currentYear = LastClick.year /\ currentMonth = LastClick.month + 1
       /\ LastClick.button = "Previous" =>
            IF LastClick.month = 1
            THEN currentYear = LastClick.year - 1 /\ currentMonth = 12
            ELSE currentYear = LastClick.year /\ currentMonth = LastClick.month - 1

C27_Witness ==
  /\ Len(trail) = 2
  /\ trail[1].button = "Next" /\ trail[1].month = 12
  /\ trail[2].button = "Next" /\ trail[2].month = 1
  /\ currentMonth = 2 /\ currentYear = trail[1].year + 1

\* C28: a click on Next followed by a click on Previous, and a click on
\* Previous followed by a click on Next, show the year and month the first
\* click was made from.
C28_NextPreviousInverse ==
  (Len(trail) = 2 /\ trail[1].button # trail[2].button)
    => (currentYear = trail[1].year /\ currentMonth = trail[1].month)

C28_Witness ==
  /\ Len(trail) = 2
  /\ trail[1].button = "Previous" /\ trail[1].month = 1
  /\ trail[2].button = "Next" /\ trail[2].month = 12
  /\ currentMonth = 1 /\ currentYear = trail[1].year

\* C29: the page shown is at least 1 and at most the number of pages of the
\* list (1 for an empty list), whatever was added, deactivated, paged or
\* loaded; a successful addition puts the new customer first, keeps the
\* others in their order and shows page 1.
C29_PageInRange ==
  /\ [](/\ 1 <= currentPage
        /\ currentPage <= (IF TotalPages(customers) > 1 THEN TotalPages(customers) ELSE 1)
        /\ TotalPages(customers) * PAGE_SIZE >= Len(customers)
        /\ (TotalPages(customers) - 1) * PAGE_SIZE < Len(customers) \/ customers = <<>>)
  /\ [][ event'.kind = "added" =>
           /\ customers'[1].id = event'.id
           /\ Tail(customers') = customers
           /\ currentPage' = 1 ]_vars

C29_Witness ==
  /\ event.kind = "added"
  /\ Len(customers) = 12
  /\ customers[1].id = event.id
  /\ currentPage = 1
  /\ TotalPages(customers) = 2

\* the add-customer requests sent by the tab now mounted
MountedAdds == {i \in DOMAIN adding : adding[i].mounted}

\* C30: every add-customer request in flight carries a non-empty trimmed name
\* and a phone number of 10 to 15 digits; at most one add-customer request is
\* in flight at a time; submitting is true exactly while the request of the
\* form is in flight, so it is false after every attempt.
C30_OneValidRequest ==
  /\ \A i \in DOMAIN adding :
       /\ adding[i].name # <<>> /\ Trim(adding[i].name) = adding[i].name
       /\ PhoneOK(adding[i].phone)
  /\ Len(adding) <= 1
  /\ submitting <=> MountedAdds # {}
  /\ event.kind \in {"added", "addFailed", "addRejectedNoLink", "addInvalid"} => ~submitting

\* the handleNativeShare calls in progress
NativeInProgress == {i \in 1..MaxAttempts : InProgress(i) /\ attempts[i].handler = "native"}

\* C24: while a handleNativeShare call for a flyer is in progress sharingId
\* is the id of that flyer, and sharingId is null exactly when no
\* handleNativeShare call is in progress, calls on two flyers that overlap
\* included.
C24_SharingIdTracksAttempt ==
  /\ \A i \in NativeInProgress : sharingId = attempts[i].flyer
  /\ sharingId = 0 <=> NativeInProgress = {}

\* C25: a handleWhatsAppShare attempt calls onClose() in the step that ends
\* it and in no step before, whichever of Shared, Cancelled, Downloaded and
\* Failed it ends in, and that step leaves the share modal closed and
\* selectedFlyer null.
C25_ClosesOnce ==
  /\ []((handler = "whatsapp" /\ pc \notin {"idle", "done"}) => closes = 0)
  /\ []((handler = "whatsapp" /\ Done) => (closes = 1 /\ outcome \in Terminal))
  /\ [][ (handler = "whatsapp" /\ pc # "done" /\ pc' = "done") =>
           /\ closes' = closes + 1
           /\ ~shareModalOpen'
           /\ selectedFlyer' = NoFlyer ]_vars

C25_Witness ==
  /\ handler = "whatsapp" /\ Done /\ closes = 1
  /\ outcome = "Failed" /\ attempted = Strategies
  /\ ~shareModalOpen /\ selectedFlyer = NoFlyer

\* the acquisition strategy that gave the blob of the attempt
BlobSource == attempted[Len(attempted)]

\* C26: the type given to the file that is shared or downloaded is the
\* encoding of the bytes acquired, whichever of the download endpoint, the
\* direct fetch and the canvas re-encode gave them: image/png for PNG bytes,
\* image/jpeg for JPEG bytes.
C26_TypeMatchesBytes ==
  (blob = "data" /\ (shared # <<>> \/ downloads # <<>>))
    => MimeType(flyer) = BlobEncoding(flyer, BlobSource)

\* every field the upload needs has a value
FormComplete ==
  /\ uploadTitle # <<>>
  /\ companyId # <<>> /\ ParseInt(companyId) \in Nat
  /\ forDate # <<>>
  /\ file.type \in {"image/png", "image/jpeg", "image/jpg"}

CurrentKey == KeyOf(currentYear, currentMonth, selectedCompanyFilter)

\* the flyer list shown by the mounted dashboard
ListShown == IF page = "/company" THEN flyers ELSE allFlyers

\* C23: once no flyer request is outstanding and none has failed, the list
\* shown is the response for the year, month and company filter selected,
\* never the response of an earlier selection.
C23_ShowsCurrentSelection ==
  (flyerCalls = {} /\ error = "" /\ adminError = "") => ListShown = FlyersFor(CurrentKey)

\* C21: run on the same flyer with the same answers of the environment, the
\* three versions of handleNativeShare end in the same outcome with the same
\* file name.
C21_VersionsAgree ==
  \A v, w \in Variants :
    (runs[v] # NoRunResult /\ runs[w] # NoRunResult) => runs[v] = runs[w]

====
